---- MODULE Spec2Model ----
(***************************************************************************)
(* Model of the generated-content recovery pipeline of sketch-to-scaffold: *)
(* AIService (generateWebsite, generateWithGemini, enhanceWithImages,      *)
(* parseGeneratedContent and its strategies, ensureCompleteGeneration,     *)
(* validateSinglePageContent, mergeContent) of src/src/services/           *)
(* AIService.ts, and ensureAllRequiredFiles of the revision kept in        *)
(* src/script.js.                                                          *)
(*                                                                         *)
(* Text is modelled as a sequence of tokens.  A token is a piece of text   *)
(* that none of the program's regular expressions splits: a JSON           *)
(* punctuation character, a quoted key with its colon ("KEY_path" is       *)
(* "path": with its quotes), a double quote ("QUOTE"), a backslash         *)
(* ("BSLASH"), a white-space character ("SP", "NL", "TAB"), a file name,   *)
(* an HTML tag, a word that a section pattern looks for, or filler text    *)
(* ("LOREM", 120 characters).  TokLen gives the number of characters of a  *)
(* token, so that the length thresholds of the code keep their meaning.    *)
(***************************************************************************)
EXTENDS Integers, Sequences, FiniteSets, TLC

VARIABLES
    apiKeys,    \* AIService.apiKeys: the in-memory overlay, provider -> key
    localStorage, \* the persisted entries ai_<provider>_key, provider -> key
    keyEdits,   \* how many times the settings dialog has saved a key
    lastSet,    \* per provider, the key of the latest setApiKey since the page was loaded
    g,          \* the generateWebsite call: its request, position and locals
    pSource,    \* parser harness: how the raw model output was built
    pInput,     \* parser harness: the raw model output handed to the parser
    pStage,     \* parser harness: "input" before the call, "parsed" after it
    pResult,    \* parser harness: the Generation Response it returned
    pLog,       \* parser harness: the calls made so far, each with its input and its result
    resolver,   \* the marker resolver of the earlier revision: one enhanceWithImages call
    ensure,     \* the completion loop on its own: one ensureCompleteGeneration call
    detect,     \* the prompt analysis of the image lookup: one detectBusinessType call
    ui          \* the WebBuilder page: its state and the generations it has started

pvars == <<pSource, pInput, pStage, pResult, pLog>>
kvars == <<apiKeys, localStorage, keyEdits, lastSet>>
vars == <<apiKeys, localStorage, keyEdits, lastSet, g, pSource, pInput, pStage, pResult, pLog, resolver, ensure, detect, ui>>

----------------------------------------------------------------------------
(* Text as token sequences *)

WsTokens == {"SP", "NL", "TAB"}

HtmlNames == {"index.html", "about.html"}

\* the number of characters of a token; a word not listed counts as 7
TokLen(t) ==
    CASE t = "LOREM" -> 120
      [] t \in WsTokens \cup {"{", "}", "[", "]", ",", "(", ")", "QUOTE", "BSLASH", "n", "t", "x"} -> 1
      [] t = "js" -> 2
      [] t \in {"css", "FENCE", "/>"} -> 3
      [] t \in {"hero", "json", "html", "body", "Sure", "Here", "none", "src=", "<img"} -> 4
      [] t \in {"about", "stats", "Sorry", "Enjoy"} -> 5
      [] t \in {"<html>", "<head>", "<body>", "<main>"} -> 6
      [] t \in {"KEY_path", "KEY_type", "</html>", "</head>", "</body>", "</main>", "contact"} -> 7
      [] t \in {"KEY_files", "KEY_pages", "KEY_error", "<header>", "<footer>", "services",
                "function", "document"} -> 8
      [] t \in {"script.js", "portfolio"} -> 9
      [] t \in {"KEY_content", "index.html", "about.html", "styles.css", "page2.html"} -> 10
      [] t = "testimonial" -> 11
      [] t = "<!DOCTYPE html>" -> 15
      [] t \in {"ALT_hero", "ALT_about", "ALT_services", "ALT_portfolio"} -> 15
      [] t \in {"=== index.html ===", "=== styles.css ===", "=== script.js ==="} -> 18
      [] t \in {"UNSPLASH", "AI_IMAGE"} -> 40
      [] OTHER -> 7

RECURSIVE StrLen(_)
StrLen(s) == IF s = <<>> THEN 0 ELSE TokLen(Head(s)) + StrLen(Tail(s))

\* s.substring(a - 1, b) with 1-based inclusive token positions
Sub(s, a, b) == IF a > b THEN <<>> ELSE SubSeq(s, a, b)

\* position of the first token at or after i that is not white space
RECURSIVE SkipWs(_, _)
SkipWs(s, i) ==
    IF i > Len(s) THEN i
    ELSE IF s[i] \in WsTokens THEN SkipWs(s, i + 1) ELSE i

At(s, i) == IF i >= 1 /\ i <= Len(s) THEN s[i] ELSE "EOF"

\* least position in from..Len(s) holding a token of set T, 0 when there is none
RECURSIVE FirstIn(_, _, _)
FirstIn(s, T, from) ==
    IF from > Len(s) THEN 0
    ELSE IF s[from] \in T THEN from ELSE FirstIn(s, T, from + 1)

\* greatest position in 1..upto holding a token of set T, 0 when there is none
RECURSIVE LastIn(_, _, _)
LastIn(s, T, upto) ==
    IF upto < 1 THEN 0
    ELSE IF s[upto] \in T THEN upto ELSE LastIn(s, T, upto - 1)

\* s.replace(/ab/g, r) for a two-token pattern a b and a one-token replacement
RECURSIVE ReplacePair(_, _, _, _)
ReplacePair(s, a, b, r) ==
    IF Len(s) < 2 THEN s
    ELSE IF s[1] = a /\ s[2] = b
         THEN <<r>> \o ReplacePair(Sub(s, 3, Len(s)), a, b, r)
         ELSE <<s[1]>> \o ReplacePair(Tail(s), a, b, r)

\* the chain .replace(/\\n/g,'\n').replace(/\\"/g,'"').replace(/\\t/g,'\t')
\* .replace(/\\\\/g,'\\'), in the order the code applies it
Unescape(s) ==
    ReplacePair(
        ReplacePair(
            ReplacePair(
                ReplacePair(s, "BSLASH", "n", "NL"),
                "BSLASH", "QUOTE", "QUOTE"),
            "BSLASH", "t", "TAB"),
        "BSLASH", "BSLASH", "BSLASH")

\* s.trim()
RECURSIVE TrimLeft(_)
TrimLeft(s) == IF s # <<>> /\ Head(s) \in WsTokens THEN TrimLeft(Tail(s)) ELSE s
RECURSIVE TrimRight(_)
TrimRight(s) ==
    IF s # <<>> /\ s[Len(s)] \in WsTokens THEN TrimRight(Sub(s, 1, Len(s) - 1)) ELSE s
Trim(s) == TrimRight(TrimLeft(s))

----------------------------------------------------------------------------
(* parseWithRegex *)

\* One match of
\*   /"path":\s*"(\w+\.html)"[\s\S]*?"content":\s*"([\s\S]*?)"\s*(?=}|\],)/
\* starting exactly at position i: [ok, path, content, next], next being the
\* position after the match.  Both [\s\S]*? are lazy: the first "content":
\* followed by a quote, then the first quote followed by } or ],.
TupleAt(s, i) ==
    LET q1 == SkipWs(s, i + 1)
        \* the first "content":\s*" after the path
        RECURSIVE ContentKey(_)
        ContentKey(c) ==
            IF c > Len(s) THEN 0
            ELSE IF s[c] = "KEY_content" /\ At(s, SkipWs(s, c + 1)) = "QUOTE"
                 THEN c ELSE ContentKey(c + 1)
        \* the first closing quote followed by \s* and } or ],
        RECURSIVE ClosingQuote(_)
        ClosingQuote(k) ==
            IF k > Len(s) THEN 0
            ELSE LET a == SkipWs(s, k + 1)
                 IN  IF s[k] = "QUOTE"
                        /\ (At(s, a) = "}" \/ (At(s, a) = "]" /\ At(s, a + 1) = ","))
                     THEN k ELSE ClosingQuote(k + 1)
        head == /\ At(s, i) = "KEY_path"
                /\ At(s, q1) = "QUOTE"
                /\ At(s, q1 + 1) \in HtmlNames
                /\ At(s, q1 + 2) = "QUOTE"
        c  == IF head THEN ContentKey(q1 + 3) ELSE 0
        q2 == IF c = 0 THEN 0 ELSE SkipWs(s, c + 1)
        k  == IF c = 0 THEN 0 ELSE ClosingQuote(q2 + 1)
    IN  IF k = 0
        THEN [ok |-> FALSE, path |-> "", content |-> <<>>, next |-> i + 1]
        ELSE [ok |-> TRUE, path |-> s[q1 + 1], content |-> Sub(s, q2 + 1, k - 1),
              next |-> SkipWs(s, k + 1)]

\* content.matchAll(...): the matches from position i on, left to right
RECURSIVE TupleMatches(_, _)
TupleMatches(s, i) ==
    IF i > Len(s) THEN <<>>
    ELSE LET m == TupleAt(s, i)
         IN  IF m.ok THEN <<m>> \o TupleMatches(s, m.next)
             ELSE TupleMatches(s, i + 1)

\* content.match(/<!DOCTYPE html[\s\S]*?<\/html>/gi): the blocks, left to right
RECURSIVE DoctypeBlocks(_, _)
DoctypeBlocks(s, i) ==
    LET a == FirstIn(s, {"<!DOCTYPE html>"}, i)
        b == IF a = 0 THEN 0 ELSE FirstIn(s, {"</html>"}, a + 1)
    IN  IF b = 0 THEN <<>>
        ELSE <<Sub(s, a, b)>> \o DoctypeBlocks(s, b + 1)

\* index === 0 ? 'index.html' : 'page' + (index + 1) + '.html', index being 0-based
PageName(n) ==
    IF n = 1 THEN "index.html"
    ELSE IF n = 2 THEN "page2.html"
    ELSE IF n = 3 THEN "page3.html" ELSE "pageN.html"

File(p, c, t) == [path |-> p, content |-> c, type |-> t]

RECURSIVE SelectSeqLong(_)
SelectSeqLong(ms) ==
    IF ms = <<>> THEN <<>>
    ELSE LET html == Unescape(Head(ms).content)
         IN  (IF StrLen(html) > 100 THEN <<File(Head(ms).path, html, "html")>> ELSE <<>>)
             \o SelectSeqLong(Tail(ms))

\* a parser whose files array is a field of the class and is never emptied: the
\* files of the call before are still in it
parseWithRegexKeepingFiles(content) ==
    LET earlier == IF pLog = <<>> THEN <<>> ELSE pLog[Len(pLog)].result.files
        tuples == SelectSeqLong(TupleMatches(content, 1))
        files  == earlier \o tuples
    IN  [files |-> files, pages |-> [n \in 1..Len(files) |-> files[n].path]]

\* files is a local of the call and both patterns are literals, evaluated anew by
\* each call, so that matching starts at the first character every time
parseWithRegex(content) ==
    LET tuples == SelectSeqLong(TupleMatches(content, 1))
        blocks == DoctypeBlocks(content, 1)
        files  == IF tuples # <<>> THEN tuples
                  ELSE [n \in 1..Len(blocks) |-> File(PageName(n), blocks[n], "html")]
    IN  [files |-> files, pages |-> [n \in 1..Len(files) |-> files[n].path]]

----------------------------------------------------------------------------
(* extractJsonFromContent, sanitizeJsonString *)

\* The pattern of a fenced code block (three backquotes, an optional json, white
\* space, a greedy {...}, white space, three backquotes; "FENCE" is the fence):
\* the group, <<>> when there is no match.
\* The opening fence is the leftmost one that works; [\s\S]* is greedy, so
\* the group ends at the last } that white space and a fence follow.
RECURSIVE FencedJson(_, _)
FencedJson(s, i) ==
    LET a == FirstIn(s, {"FENCE"}, i)
        b == SkipWs(s, IF At(s, a + 1) = "json" THEN a + 2 ELSE a + 1)
        RECURSIVE LastClose(_)
        LastClose(e) ==
            IF e <= b THEN 0
            ELSE IF s[e] = "}" /\ At(s, SkipWs(s, e + 1)) = "FENCE"
                 THEN e ELSE LastClose(e - 1)
        e == IF At(s, b) = "{" THEN LastClose(Len(s)) ELSE 0
    IN  IF a = 0 THEN <<>>
        ELSE IF e # 0 THEN Sub(s, b, e) ELSE FencedJson(s, a + 1)

\* /(\{[\s\S]*"files"[\s\S]*\})/i : from the leftmost { that has "files" and
\* then a } after it, to the last }
FilesJson(s) ==
    LET e == LastIn(s, {"}"}, Len(s))
        f == LastIn(s, {"KEY_files"}, e)
        b == FirstIn(s, {"{"}, 1)
    IN  IF e # 0 /\ f # 0 /\ b # 0 /\ b < f THEN Sub(s, b, e) ELSE <<>>

\* /(\{[\s\S]*\})/ : from the first { to the last }
BraceJson(s) ==
    LET e == LastIn(s, {"}"}, Len(s))
        b == FirstIn(s, {"{"}, 1)
    IN  IF b # 0 /\ b < e THEN Sub(s, b, e) ELSE <<>>

\* the first pattern that matches; <<>> stands for null
extractJsonFromContent(content) ==
    IF FencedJson(content, 1) # <<>> THEN FencedJson(content, 1)
    ELSE IF FilesJson(content) # <<>> THEN FilesJson(content)
    ELSE BraceJson(content)

sanitizeJsonString(jsonStr) ==
    LET t  == Trim(jsonStr)
        ob == FirstIn(t, {"{"}, 1)
        u  == IF t # <<>> /\ Head(t) # "{" /\ ob # 0 THEN Sub(t, ob, Len(t)) ELSE t
        cb == LastIn(u, {"}"}, Len(u))
    IN  IF u # <<>> /\ u[Len(u)] # "}" /\ cb # 0 THEN Sub(u, 1, cb) ELSE u

----------------------------------------------------------------------------
(* JSON.parse, on token text.  A value is a string, an array or an object  *)
(* (the texts of the model hold no numbers, booleans or null).             *)

KeyTokens == {"KEY_path", "KEY_content", "KEY_type", "KEY_files", "KEY_pages", "KEY_error"}

JFail == [ok |-> FALSE, val |-> [t |-> "err"], next |-> 0]

\* a string body from position j on (the opening quote is at j - 1): raw
\* control characters and unknown escapes are syntax errors
RECURSIVE JString(_, _, _)
JString(s, j, acc) ==
    IF j > Len(s) THEN JFail
    ELSE IF s[j] = "QUOTE" THEN [ok |-> TRUE, val |-> [t |-> "str", s |-> acc], next |-> j + 1]
    ELSE IF s[j] \in {"NL", "TAB"} THEN JFail
    ELSE IF s[j] = "BSLASH"
         THEN IF At(s, j + 1) = "QUOTE" THEN JString(s, j + 2, Append(acc, "QUOTE"))
              ELSE IF At(s, j + 1) = "BSLASH" THEN JString(s, j + 2, Append(acc, "BSLASH"))
              ELSE IF At(s, j + 1) = "n" THEN JString(s, j + 2, Append(acc, "NL"))
              ELSE IF At(s, j + 1) = "t" THEN JString(s, j + 2, Append(acc, "TAB"))
              ELSE JFail
    ELSE JString(s, j + 1, Append(acc, s[j]))

RECURSIVE JValue(_, _)
RECURSIVE JElements(_, _, _)
RECURSIVE JMembers(_, _, _, _)

\* the elements of an array after its [ or after a comma, up to its ]
JElements(s, i, acc) ==
    LET v == JValue(s, i)
        j == SkipWs(s, v.next)
    IN  IF ~v.ok THEN JFail
        ELSE IF At(s, j) = "," THEN JElements(s, j + 1, Append(acc, v.val))
        ELSE IF At(s, j) = "]"
             THEN [ok |-> TRUE, val |-> [t |-> "arr", a |-> Append(acc, v.val)], next |-> j + 1]
        ELSE JFail

\* the members of an object after its { or after a comma, up to its }
JMembers(s, i, ks, vs) ==
    LET k == SkipWs(s, i)
        v == JValue(s, k + 1)
        j == SkipWs(s, v.next)
    IN  IF At(s, k) \notin KeyTokens THEN JFail
        ELSE IF ~v.ok THEN JFail
        ELSE IF At(s, j) = "," THEN JMembers(s, j + 1, Append(ks, s[k]), Append(vs, v.val))
        ELSE IF At(s, j) = "}"
             THEN [ok |-> TRUE,
                   val |-> [t |-> "obj", k |-> Append(ks, s[k]), v |-> Append(vs, v.val)],
                   next |-> j + 1]
        ELSE JFail

JValue(s, i) ==
    LET j == SkipWs(s, i)
    IN  IF At(s, j) = "QUOTE" THEN JString(s, j + 1, <<>>)
        ELSE IF At(s, j) = "["
             THEN IF At(s, SkipWs(s, j + 1)) = "]"
                  THEN [ok |-> TRUE, val |-> [t |-> "arr", a |-> <<>>], next |-> SkipWs(s, j + 1) + 1]
                  ELSE JElements(s, j + 1, <<>>)
        ELSE IF At(s, j) = "{"
             THEN IF At(s, SkipWs(s, j + 1)) = "}"
                  THEN [ok |-> TRUE, val |-> [t |-> "obj", k |-> <<>>, v |-> <<>>],
                        next |-> SkipWs(s, j + 1) + 1]
                  ELSE JMembers(s, j + 1, <<>>, <<>>)
        ELSE JFail

\* JSON.parse(text): JFail stands for the SyntaxError it throws
JSONparse(s) ==
    LET v == JValue(s, 1)
    IN  IF v.ok /\ SkipWs(s, v.next) > Len(s) THEN v ELSE JFail

\* obj[key]: the value of the last member with that key; HasKey tells whether there is one
KeyPos(obj, key) ==
    LET ps == {p \in 1..Len(obj.k) : obj.k[p] = key}
    IN  IF ps = {} THEN 0 ELSE CHOOSE p \in ps : \A r \in ps : r <= p
HasKey(obj, key) == obj.t = "obj" /\ KeyPos(obj, key) # 0
Get(obj, key) == obj.v[KeyPos(obj, key)]

\* a property the object does not have reads as undefined
Missing == "undefined"

\* the text of a string member; <<Missing>> for a member that is absent
StrOf(obj, key) ==
    IF HasKey(obj, key) /\ Get(obj, key).t = "str" THEN Get(obj, key).s ELSE <<Missing>>

\* a single-token string member (a path, a type) as that token
NameOf(obj, key) ==
    LET v == StrOf(obj, key) IN IF Len(v) = 1 THEN v[1] ELSE Missing

\* the entries of parsed.files as {path, content, type} objects, as parsed
FilesOf(arr) ==
    [n \in 1..Len(arr.a) |->
        File(NameOf(arr.a[n], "KEY_path"), StrOf(arr.a[n], "KEY_content"),
             NameOf(arr.a[n], "KEY_type"))]

PagesOf(arr) == [n \in 1..Len(arr.a) |-> IF Len(arr.a[n].s) = 1 THEN arr.a[n].s[1] ELSE Missing]

----------------------------------------------------------------------------
(* createFallbackContent, parseGeneratedContent *)

NoError == "none"

\* shape tells what files is: "array", or, for a value that JSON.parse made and
\* that is no array, "object" or "string" (files is then kept as <<>>)
Response(ok, files, pages, err) ==
    [success |-> ok, files |-> files, pages |-> pages, error |-> err, shape |-> "array"]

\* no response yet
Pending == Response(FALSE, <<>>, <<>>, "pending")

\* tokens that /<!DOCTYPE html|<html|<head|<body/i matches in ("<header>" holds "<head")
HtmlStartTokens == {"<!DOCTYPE html>", "<html>", "<head>", "<body>", "<header>"}

createFallbackContent(content) ==
    LET htmlStart == FirstIn(content, HtmlStartTokens, 1)
        rest      == Sub(content, htmlStart, Len(content))
        close     == FirstIn(rest, {"</html>"}, 1)
        \* search(/<\/html>|$/) + 7: through the first </html>, or all of it
        cut       == IF close = 0 THEN rest ELSE Sub(rest, 1, close)
        html      == Unescape(cut)
        files     == IF htmlStart # 0 /\ StrLen(html) > 50
                     THEN <<File("index.html", html, "html")>> ELSE <<>>
    IN  Response(files # <<>>, files, IF files # <<>> THEN <<"index.html">> ELSE <<>>, NoError)

\* parsed.pages || ['index.html']
PagesOrDefault(obj) ==
    IF HasKey(obj, "KEY_pages") /\ Get(obj, "KEY_pages").t = "arr"
    THEN PagesOf(Get(obj, "KEY_pages")) ELSE <<"index.html">>

\* !value for a value of JSON.parse: every array and object, every string but ""
Truthy(v) == v.t \in {"arr", "obj"} \/ (v.t = "str" /\ v.s # <<>>)

\* The try block from the JSON.parse on: parsed is what JSON.parse made of the
\* extracted text (JFail is its SyntaxError)
ParseJsonRoute(parsed) ==
    LET Throw(msg)  == [threw |-> TRUE, error |-> msg, value |-> Response(FALSE, <<>>, <<>>, msg)]
        Return(r)   == [threw |-> FALSE, error |-> NoError, value |-> r]
    IN  IF ~parsed.ok
        THEN Throw("SyntaxError")
        ELSE IF ~(HasKey(parsed.val, "KEY_files") /\ Truthy(Get(parsed.val, "KEY_files")))
        THEN Throw("Could not parse valid file structure from response")
        ELSE IF Get(parsed.val, "KEY_files").t = "arr"
        THEN Return(Response(TRUE, FilesOf(Get(parsed.val, "KEY_files")), PagesOrDefault(parsed.val),
                             NoError))
        ELSE Return([Response(TRUE, <<>>, PagesOrDefault(parsed.val), NoError) EXCEPT
                        !.shape = IF Get(parsed.val, "KEY_files").t = "obj" THEN "object"
                                  ELSE "string"])

\* The try block after parseWithRegex: regexResult is what it returned, jsonStr
\* what extractJsonFromContent returned
ParseAfterRegex(regexResult, jsonStr) ==
    IF Len(regexResult.files) > 0
    THEN [threw |-> FALSE, error |-> NoError,
          value |-> Response(TRUE, regexResult.files, regexResult.pages, NoError)]
    ELSE IF jsonStr = <<>>
    THEN [threw |-> TRUE, error |-> "No valid JSON structure found in response",
          value |-> Response(FALSE, <<>>, <<>>, "No valid JSON structure found in response")]
    ELSE ParseJsonRoute(JSONparse(sanitizeJsonString(jsonStr)))

\* The body of the try block: [threw, error, value]
ParseTry(content) == ParseAfterRegex(parseWithRegex(content), extractJsonFromContent(content))

\* the catch: the fallback, or the failure with the message of the error
ParseCatch(try, fallbackResult) ==
    IF ~try.threw THEN try.value
    ELSE IF Len(fallbackResult.files) > 0 THEN fallbackResult
    ELSE Response(FALSE, <<>>, <<>>, try.error)

\* the parser without its final fallback
parseWithoutFallback(content) == ParseTry(content).value

parseGeneratedContent(content) == ParseCatch(ParseTry(content), createFallbackContent(content))

----------------------------------------------------------------------------
(* parseFallbackFormat (the revision of the service kept in src/script.js) *)

DelimiterTokens == {"=== index.html ===", "=== styles.css ===", "=== script.js ==="}

\* /=== name ===\s*([\s\S]*?)(?=\s*===|\s*$)/i, group 1 trimmed: the text after
\* the first line of that name up to the next === or the end; [found, text]
DelimitedSection(content, marker) ==
    LET a == FirstIn(content, {marker}, 1)
        b == IF a = 0 THEN 0 ELSE FirstIn(content, DelimiterTokens, a + 1)
    IN  IF a = 0 THEN [found |-> FALSE, text |-> <<>>]
        ELSE [found |-> TRUE,
              text |-> Trim(Sub(content, a + 1, IF b = 0 THEN Len(content) ELSE b - 1))]

parseFallbackFormat(content) ==
    LET html == DelimitedSection(content, "=== index.html ===")
        css  == DelimitedSection(content, "=== styles.css ===")
        js   == DelimitedSection(content, "=== script.js ===")
    IN  [files |-> (IF html.found THEN <<File("index.html", html.text, "html")>> ELSE <<>>)
                   \o (IF css.found THEN <<File("styles.css", css.text, "css")>> ELSE <<>>)
                   \o (IF js.found THEN <<File("script.js", js.text, "js")>> ELSE <<>>),
         pages |-> <<"index.html">>]

----------------------------------------------------------------------------
(* validateSinglePageContent *)

\* requiredSections, in table order
SectionIds ==
    <<"header", "hero", "about", "services", "testimonials", "portfolio", "stats",
      "contact", "footer">>

\* the tokens in which one of the patterns of a section matches (case-insensitive);
\* the ALT_ tokens are the alt texts enhanceWithImages writes ("Hero background image", ...)
SectionTokens(id) ==
    CASE id = "header"       -> {"<header>"}
      [] id = "hero"         -> {"hero", "ALT_hero"}
      [] id = "about"        -> {"about", "ALT_about"}
      [] id = "services"     -> {"services", "ALT_services"}
      [] id = "testimonials" -> {"testimonial"}
      [] id = "portfolio"    -> {"portfolio", "ALT_portfolio"}
      [] id = "stats"        -> {"stats"}
      [] id = "contact"      -> {"contact"}
      [] id = "footer"       -> {"<footer>"}

Has(s, T) == FirstIn(s, T, 1) # 0

hasSection(htmlContent, id) == Has(htmlContent, SectionTokens(id))

\* the for loop over requiredSections from entry n on: [missing, last]
RECURSIVE ScanSections(_, _, _, _)
ScanSections(htmlContent, n, missing, last) ==
    IF n > Len(SectionIds) THEN [missing |-> missing, last |-> last]
    ELSE IF hasSection(htmlContent, SectionIds[n])
         THEN ScanSections(htmlContent, n + 1, missing, SectionIds[n])
         ELSE ScanSections(htmlContent, n + 1, Append(missing, SectionIds[n]), last)

\* response.files[0].content of a files that is an object: files.length is
\* undefined, files[0] is undefined, and reading its content is a TypeError
validateThrows(response) == response.success /\ response.shape = "object"

\* a validation that takes the closing </html> for the end of the document and
\* does not look for </body>
validateSinglePageContentHtmlOnly(response) ==
    IF ~response.success \/ (response.shape = "array" /\ Len(response.files) = 0)
    THEN [isComplete |-> FALSE, missingSections |-> <<"all">>, lastSection |-> "none"]
    ELSE IF response.shape # "array"
    THEN [isComplete |-> FALSE, missingSections |-> SectionIds, lastSection |-> "header"]
    ELSE LET htmlContent == response.files[1].content
             scan        == ScanSections(htmlContent, 1, <<>>, "header")
         IN  [isComplete |-> Len(scan.missing) = 0 /\ Has(htmlContent, {"</html>"}),
              missingSections |-> scan.missing,
              lastSection |-> scan.last]

\* the value it returns when it does not throw; of a files that is a string,
\* files[0] is a character and its content reads as undefined
validateSinglePageContent(response) ==
    IF ~response.success \/ (response.shape = "array" /\ Len(response.files) = 0)
    THEN [isComplete |-> FALSE, missingSections |-> <<"all">>, lastSection |-> "none"]
    ELSE IF response.shape # "array"
    THEN [isComplete |-> FALSE, missingSections |-> SectionIds, lastSection |-> "header"]
    ELSE LET htmlContent == response.files[1].content
             scan        == ScanSections(htmlContent, 1, <<>>, "header")
             hasClosingHtml == Has(htmlContent, {"</html>"})
             hasClosingBody == Has(htmlContent, {"</body>"})
         IN  [isComplete |-> Len(scan.missing) = 0 /\ hasClosingHtml /\ hasClosingBody,
              missingSections |-> scan.missing,
              lastSection |-> scan.last]

----------------------------------------------------------------------------
(* mergeContent *)

\* s.replace(/<tag[^>]*>/i, ''): the first token of set T removed
RemoveFirst(s, T) ==
    LET a == FirstIn(s, T, 1)
    IN  IF a = 0 THEN s ELSE Sub(s, 1, a - 1) \o Sub(s, a + 1, Len(s))

\* s.replace(/<head[^>]*>[\s\S]*?<\/head>/i, ''): from the first tag that starts
\* with <head ("<header>" does) to the first </head> after it
RemoveHead(s) ==
    LET a == FirstIn(s, {"<head>", "<header>"}, 1)
        b == IF a = 0 THEN 0 ELSE FirstIn(s, {"</head>"}, a + 1)
    IN  IF b = 0 THEN s ELSE Sub(s, 1, a - 1) \o Sub(s, b + 1, Len(s))

cleanContinuation(continuationContent) ==
    Trim(RemoveFirst(RemoveFirst(RemoveHead(RemoveFirst(RemoveFirst(
        continuationContent, {"<!DOCTYPE html>"}), {"<html>"})), {"<body>"}), {"<main>"}))

\* an insertion that looks for </body> before it looks for </main>
insertionPointBodyFirst(existingContent) ==
    IF Has(existingContent, {"</body>"}) THEN FirstIn(existingContent, {"</body>"}, 1) - 1
    ELSE IF Has(existingContent, {"</main>"}) THEN FirstIn(existingContent, {"</main>"}, 1) - 1
    ELSE IF Has(existingContent, {"</html>"}) THEN FirstIn(existingContent, {"</html>"}, 1) - 1
    ELSE Len(existingContent)

\* the 0-based character offset of the code, as the number of tokens before it
insertionPoint(existingContent) ==
    IF Has(existingContent, {"</main>"}) THEN FirstIn(existingContent, {"</main>"}, 1) - 1
    ELSE IF Has(existingContent, {"</body>"}) THEN FirstIn(existingContent, {"</body>"}, 1) - 1
    ELSE IF Has(existingContent, {"</html>"}) THEN FirstIn(existingContent, {"</html>"}, 1) - 1
    ELSE Len(existingContent)

mergeContent(existingResponse, continuationResponse) ==
    IF Len(existingResponse.files) = 0 \/ Len(continuationResponse.files) = 0
    THEN existingResponse
    ELSE LET existingContent == existingResponse.files[1].content
             point  == insertionPoint(existingContent)
             merged == Sub(existingContent, 1, point) \o <<"NL", "NL">>
                       \o cleanContinuation(continuationResponse.files[1].content)
                       \o <<"NL", "NL">> \o Sub(existingContent, point + 1, Len(existingContent))
         IN  [existingResponse EXCEPT
                !.files = <<[existingResponse.files[1] EXCEPT !.content = merged]>>]

----------------------------------------------------------------------------
(* ensureAllRequiredFiles (the revision of the service kept in src/script.js) *)

PlaceholderHtml == <<"<!DOCTYPE html>", "<html>", "<head>", "</head>", "<body>", "</body>", "</html>">>
generateBasicCSS == <<"body", "{", "}", "LOREM">>
generateBasicJS == <<"document", "function", "(", ")", "{", "}", "LOREM">>

\* new Map(files.map(f => [f.path, f])): a path keeps the place of its first
\* entry and the value of its last one
RECURSIVE MapValues(_, _)
MapValues(files, n) ==
    IF n > Len(files) THEN <<>>
    ELSE LET same == {m \in 1..Len(files) : files[m].path = files[n].path}
             lastOne == CHOOSE m \in same : \A r \in same : r <= m
         IN  (IF \A m \in same : m >= n THEN <<files[lastOne]>> ELSE <<>>)
             \o MapValues(files, n + 1)

ensureAllRequiredFiles(files) ==
    LET has(fs, p) == \E n \in 1..Len(fs) : fs[n].path = p
        m0 == MapValues(files, 1)
        m1 == IF has(m0, "index.html") THEN m0
              ELSE Append(m0, File("index.html", PlaceholderHtml, "html"))
        m2 == IF has(m1, "styles.css") THEN m1
              ELSE Append(m1, File("styles.css", generateBasicCSS, "css"))
    IN  IF has(m2, "script.js") THEN m2
        ELSE Append(m2, File("script.js", generateBasicJS, "js"))


----------------------------------------------------------------------------
(* Raw model outputs.  The model is told to answer with the JSON of the    *)
(* OUTPUT FORMAT of buildSystemPrompt; a well-formed answer is the         *)
(* serialization of a {files, pages} object, possibly inside a fenced code *)
(* block, after a sentence of prose, or pretty-printed.                    *)

MaxFiles == 2        \* files in a generated answer

\* file contents
HtmlComplete ==
    <<"<!DOCTYPE html>", "NL", "<html>", "<head>", "</head>", "<body>", "<header>",
      "<main>", "hero", "about", "services", "testimonial", "portfolio", "stats",
      "contact", "LOREM", "</main>", "<footer>", "</body>", "</html>">>
\* a complete page with one stock photograph
HtmlGallery ==
    <<"<!DOCTYPE html>", "<html>", "<body>", "<header>", "<main>", "hero", "<img", "src=",
      "QUOTE", "UNSPLASH", "QUOTE", "/>", "about", "services", "testimonial", "portfolio",
      "stats", "contact", "LOREM", "</main>", "<footer>", "</body>", "</html>">>
\* what a continuation is asked for: the sections from services on, and the closing tags
FragmentRest ==
    <<"services", "testimonial", "portfolio", "stats", "contact", "LOREM", "</main>",
      "<footer>", "</body>", "</html>">>
FragmentSome == <<"services", "testimonial", "LOREM">>
HtmlPartial ==
    <<"<!DOCTYPE html>", "<html>", "<body>", "QUOTE", "x", "QUOTE", "<header>", "<main>",
      "hero", "about", "LOREM">>
HtmlShort == <<"<html>", "<body>", "hero", "</body>", "</html>">>
HtmlBackslash == <<"<html>", "<body>", "hero", "BSLASH", "n", "LOREM", "</body>", "</html>">>
CssText == <<"body", "{", "}", "LOREM">>
JsText == <<"function", "(", ")", "{", "}", "LOREM">>

FileChoices ==
    { File("index.html", HtmlComplete, "html"),
      File("index.html", HtmlShort, "html"),
      File("index.html", HtmlBackslash, "html"),
      File("index.html", HtmlGallery, "html"),
      File("about.html", HtmlPartial, "html"),
      File("index.html", <<>>, "html"),
      File("styles.css", CssText, "css"),
      File("script.js", JsText, "js") }

RECURSIVE SeqsUpTo(_, _)
SeqsUpTo(S, n) ==
    IF n = 0 THEN {<<>>}
    ELSE LET shorter == SeqsUpTo(S, n - 1)
         IN  shorter \cup {Append(q, x) : q \in {r \in shorter : Len(r) = n - 1}, x \in S}

\* JSON.stringify of a string: quote, backslash, newline and tab are escaped
RECURSIVE Escape(_)
Escape(s) ==
    IF s = <<>> THEN <<>>
    ELSE (CASE Head(s) = "QUOTE"  -> <<"BSLASH", "QUOTE">>
            [] Head(s) = "BSLASH" -> <<"BSLASH", "BSLASH">>
            [] Head(s) = "NL"     -> <<"BSLASH", "n">>
            [] Head(s) = "TAB"    -> <<"BSLASH", "t">>
            [] OTHER              -> <<Head(s)>>) \o Escape(Tail(s))

JsonString(s) == <<"QUOTE">> \o Escape(s) \o <<"QUOTE">>

\* sep is what stands between the tokens of the document: nothing, or a newline
FileJson(f, withType, sep) ==
    <<"{">> \o sep \o <<"KEY_path">> \o JsonString(<<f.path>>) \o <<",">> \o sep
    \o <<"KEY_content">> \o JsonString(f.content)
    \o (IF withType THEN <<",">> \o sep \o <<"KEY_type">> \o JsonString(<<f.type>>) ELSE <<>>)
    \o sep \o <<"}">>

RECURSIVE JoinJson(_, _, _)
JoinJson(fs, withType, sep) ==
    IF fs = <<>> THEN <<>>
    ELSE FileJson(Head(fs), withType, sep)
         \o (IF Len(fs) > 1 THEN <<",">> \o sep ELSE <<>>)
         \o JoinJson(Tail(fs), withType, sep)

RECURSIVE JoinNames(_)
JoinNames(ps) ==
    IF ps = <<>> THEN <<>>
    ELSE JsonString(<<Head(ps)>>) \o (IF Len(ps) > 1 THEN <<",">> ELSE <<>>) \o JoinNames(Tail(ps))

HtmlPaths(fs) ==
    LET html == SelectSeq(fs, LAMBDA f : f.type = "html")
    IN  [n \in 1..Len(html) |-> html[n].path]

\* the document {"files":[...],"pages":[...]}; pages lists the markup files
ResponseJson(fs, withType, withPages, sep) ==
    <<"{">> \o sep \o <<"KEY_files", "[">> \o JoinJson(fs, withType, sep) \o <<"]">>
    \o (IF withPages THEN <<",">> \o sep \o <<"KEY_pages", "[">> \o JoinNames(HtmlPaths(fs)) \o <<"]">>
        ELSE <<>>)
    \o sep \o <<"}">>

Wrap(doc, wrap) ==
    CASE wrap = "bare"   -> doc
      [] wrap = "fenced" -> <<"FENCE", "json", "NL">> \o doc \o <<"NL", "FENCE">>
      [] wrap = "prose"  -> <<"Here", "SP", "is", "SP">> \o doc \o <<"NL", "Enjoy">>

Source(kind, fs, withType, withPages, wrap, pretty, cut) ==
    [kind |-> kind, files |-> fs, withType |-> withType, withPages |-> withPages,
     wrap |-> wrap, pretty |-> pretty, cut |-> cut]

\* well-formed answers
JsonSources ==
    { Source("json", fs, ty, pg, w, pr, 0) :
        fs \in SeqsUpTo(FileChoices, MaxFiles), ty \in BOOLEAN, pg \in BOOLEAN,
        w \in {"bare", "fenced", "prose"}, pr \in BOOLEAN }

\* an answer cut off after its first cut tokens (the output limit was reached)
TruncatedDoc == <<File("index.html", HtmlComplete, "html"), File("styles.css", CssText, "css")>>
TruncatedSources ==
    { Source("truncated", TruncatedDoc, FALSE, FALSE, "bare", FALSE, c) :
        c \in 1..(Len(ResponseJson(TruncatedDoc, FALSE, FALSE, <<>>)) - 1) }

\* an answer that is no JSON at all: a bare page, a page in prose, prose, nothing
PlainSources ==
    { Source(k, <<>>, FALSE, FALSE, "bare", FALSE, 0) :
        k \in {"page", "pages", "partialpage", "shortpage", "prose", "empty", "rawjson",
               "errorjson", "filesobject", "filesstring", "delimited"} }

Sources == JsonSources \cup TruncatedSources \cup PlainSources

Render(src) ==
    CASE src.kind = "json" ->
            Wrap(ResponseJson(src.files, src.withType, src.withPages,
                              IF src.pretty THEN <<"NL">> ELSE <<>>), src.wrap)
      [] src.kind = "truncated" ->
            Sub(ResponseJson(src.files, src.withType, src.withPages, <<>>), 1, src.cut)
      [] src.kind = "page"        -> HtmlComplete
      [] src.kind = "pages"       -> <<"Sure", "NL">> \o HtmlComplete \o <<"NL">> \o HtmlComplete
      [] src.kind = "partialpage" -> <<"Sure", "NL">> \o HtmlPartial
      [] src.kind = "shortpage"   -> HtmlShort
      [] src.kind = "prose"       -> <<"Sorry", "SP", "LOREM">>
      [] src.kind = "empty"       -> <<>>
      \* the content written into the JSON without escaping its quotes and newlines
      [] src.kind = "rawjson" ->
            <<"{", "KEY_files", "[", "{", "KEY_path", "QUOTE", "styles.css", "QUOTE", ",",
              "KEY_content", "QUOTE">> \o <<"body", "NL", "QUOTE", "x", "QUOTE">>
              \o <<"QUOTE", "}", "]", "}">>
      \* files given as an object, and as a string
      [] src.kind = "filesobject" -> <<"{", "KEY_files", "{", "}", "}">>
      [] src.kind = "filesstring" -> <<"{", "KEY_files">> \o JsonString(<<"none">>) \o <<"}">>
      [] src.kind = "errorjson" ->
            <<"{", "KEY_error">> \o JsonString(<<"Sorry">>) \o <<"}">>
      \* the files under === <filename> === lines, as a provider that disregards
      \* the JSON instruction writes them
      [] src.kind = "delimited" ->
            <<"=== index.html ===", "NL", "<html>", "<body>", "hero", "LOREM", "</body>", "</html>",
              "NL", "=== styles.css ===", "NL">> \o CssText

----------------------------------------------------------------------------
(* The API-key store: setApiKey, getApiKey, and the settings dialog *)

Providers == {"gemini", "openai", "claude"}
KeyNames == Providers \cup {"clarifai"}
NoKey == ""          \* an entry that is not there (undefined, null)

MaxKeyEdits == 1     \* submissions of the settings dialog

\* private static apiKeys = { gemini: ..., clarifai: ... }
InitialApiKeys ==
    [p \in KeyNames |-> IF p = "gemini" THEN "AIza" ELSE IF p = "clarifai" THEN "a859" ELSE NoKey]

\* no setApiKey since the page was loaded
NeverSet == [p \in KeyNames |-> "unset"]

getApiKey(keys, storage, provider) ==
    IF keys[provider] # NoKey THEN keys[provider] ELSE storage[provider]

\* a settings dialog whose setApiKey writes the overlay and not localStorage
handleApiKeySubmitOverlayOnly(provider, apiKey) ==
    /\ keyEdits' = keyEdits + 1
    /\ IF apiKey = NoKey
       THEN UNCHANGED <<apiKeys, localStorage, lastSet>>
       ELSE /\ apiKeys' = [apiKeys EXCEPT ![provider] = apiKey]
            /\ lastSet' = [lastSet EXCEPT ![provider] = apiKey]
            /\ UNCHANGED localStorage

\* handleApiKeySubmit of the settings dialog: a blank key is refused, any other
\* is handed to AIService.setApiKey, which writes the overlay and localStorage
handleApiKeySubmit(provider, apiKey) ==
    /\ keyEdits' = keyEdits + 1
    /\ IF apiKey = NoKey
       THEN UNCHANGED <<apiKeys, localStorage, lastSet>>
       ELSE /\ apiKeys' = [apiKeys EXCEPT ![provider] = apiKey]
            /\ localStorage' = [localStorage EXCEPT ![provider] = apiKey]
            /\ lastSet' = [lastSet EXCEPT ![provider] = apiKey]

----------------------------------------------------------------------------
(* identifyImageSections and the replacement of enhanceWithImages *)

\* the sections, in the order identifyImageSections pushes them, whose words
\* content.includes finds (case-sensitive: 'Portfolio image' holds none of
\* portfolio, gallery, work)
ImageSectionTokens(type) ==
    CASE type = "hero"      -> {"hero", "ALT_hero"}
      [] type = "about"     -> {"about", "ALT_about"}
      [] type = "services"  -> {"services", "ALT_services"}
      [] type = "portfolio" -> {"portfolio"}

identifyImageSections(content) ==
    SelectSeq(<<"hero", "about", "services", "portfolio">>,
              LAMBDA type : Has(content, ImageSectionTokens(type)))

\* <img src="${imageUrl}" alt="${section.alt}" class="${section.classes}" loading="lazy" />
ImgTag(type) ==
    <<"<img", "src=", "QUOTE", "AI_IMAGE", "QUOTE", "QUOTE",
      (CASE type = "hero" -> "ALT_hero" [] type = "about" -> "ALT_about"
         [] type = "services" -> "ALT_services" [] type = "portfolio" -> "ALT_portfolio"),
      "QUOTE", "/>">>

\* content.replace(/src="https:\/\/images\.unsplash\.com\/[^"]*"/g, tag): every
\* src="https://images.unsplash.com/..." attribute (src=, quote, UNSPLASH, quote)
RECURSIVE ReplaceUnsplash(_, _)
ReplaceUnsplash(s, tag) ==
    IF s = <<>> THEN <<>>
    ELSE IF Len(s) >= 4 /\ Sub(s, 1, 4) = <<"src=", "QUOTE", "UNSPLASH", "QUOTE">>
         THEN tag \o ReplaceUnsplash(Sub(s, 5, Len(s)), tag)
         ELSE <<Head(s)>> \o ReplaceUnsplash(Tail(s), tag)

----------------------------------------------------------------------------
(* The answers of the generative endpoint *)

Json(fs) == Render(Source("json", fs, FALSE, TRUE, "bare", FALSE, 0))

\* what the model may answer to the first prompt ...
FirstOutputs ==
    { Json(<<File("index.html", HtmlGallery, "html")>>),
      Json(<<File("index.html", HtmlPartial, "html")>>),
      Json(<<File("index.html", HtmlPartial, "html"), File("about.html", HtmlComplete, "html")>>),
      Json(<<File("styles.css", CssText, "css")>>),
      Json(<<>>),
      <<"{", "KEY_files", "{", "}", "}">>,
      <<"Sure", "NL">> \o HtmlPartial,
      <<"Sorry", "SP", "LOREM">> }

\* ... and to a continuation prompt
ContinuationOutputs ==
    { Json(<<File("index.html", FragmentRest, "html")>>),
      Json(<<File("index.html", FragmentSome, "html")>>),
      <<"Sorry", "SP", "LOREM">> }

Outputs(mode) == IF mode = "first" THEN FirstOutputs ELSE ContinuationOutputs

\* the parser is a function of the content alone: what it makes of each answer
ParsedOutputs ==
    [content \in FirstOutputs \cup ContinuationOutputs |-> parseGeneratedContent(content)]

----------------------------------------------------------------------------
(* generateWebsite, generateWithGemini, enhanceWithImages,                 *)
(* ensureCompleteGeneration: one call, stepped from await to await.        *)
(* g.pc is where the call waits:                                           *)
(*   "idle"    not started                                                 *)
(*   "reading" fileToBase64 reads the screenshot                           *)
(*   "fetch"   an HTTP request to the generative endpoint is in flight     *)
(*   "backoff" the setTimeout of the overload retry runs                   *)
(*   "images"  image requests of enhanceWithImages are in flight           *)
(*   "done"    the promise of generateWebsite has settled with g.result    *)

maxAttempts == 3     \* for (let attempt = 1; attempt <= 3; attempt++)
maxRetries == 3      \* const maxRetries = 3
backoffSeconds == 2  \* setTimeout(resolve, attempt * 2000)
MaxTimerLate == 1    \* seconds a timer may fire late

Failure(msg) == Response(FALSE, <<>>, <<>>, msg)

Requests ==
    [projectType : {"single-page", "multi-page"}, provider : Providers,
     image : BOOLEAN, onProgress : BOOLEAN]

IdleCall ==
    [pc |-> "idle",
     req |-> [projectType |-> "single-page", provider |-> "gemini", image |-> FALSE,
              onProgress |-> FALSE],
     apiKey |-> NoKey,        \* const apiKey of generateWebsite
     mode |-> "first",        \* which call of generateWithGemini runs: "first", "continuation"
     attempt |-> 0,           \* attempt of generateWithGemini
     lastError |-> NoError,
     contAttempt |-> 0,       \* attempt of ensureCompleteGeneration
     currentResponse |-> Pending,
     tasks |-> <<>>,          \* enhanceWithImages: per file, its content and the sections left
     pages |-> <<>>,          \* enhanceWithImages: response.pages
     result |-> Pending,
     \* what an observer of the call records
     \* the retry loop that runs, or that ended in failure:
     sends |-> <<>>,          \* per request, the seconds waited before it
     statuses |-> <<>>,       \* per response, what came back
     firstParsed |-> Pending, \* const response of enhanceWithImages in the first call
     firstResponse |-> Pending, \* what the first generateWithGemini call returned
     contCalls |-> 0,         \* continuation calls of generateWithGemini so far
     merges |-> <<>>,         \* the continuation contents merged so far
     progress |-> <<>>,       \* the calls of request.onProgress: [content, isComplete]
     sentKey |-> NoKey,       \* the key in the URL of the latest request
     keyAtSend |-> NoKey,     \* what getApiKey gave for the provider when it was issued
     via |-> "none",          \* who called generateWebsite: "page" (handleGenerate), "service"
     toast |-> "none"]        \* the title of the toast handleGenerate showed last

\* generateWebsite settles
Finish(c, response) == [c EXCEPT !.pc = "done", !.result = response]

\* fetch(...) is called
SendFetch(c, waited) ==
    [c EXCEPT !.pc = "fetch", !.sends = Append(@, waited), !.sentKey = c.apiKey,
              !.keyAtSend = getApiKey(apiKeys, localStorage, c.req.provider)]

\* generateWithGemini is entered: the screenshot, if any, is read first
StartGemini(c, mode) ==
    LET c1 == [c EXCEPT !.mode = mode, !.attempt = 1, !.lastError = NoError,
                        !.sends = <<>>, !.statuses = <<>>, !.tasks = <<>>, !.pages = <<>>]
    IN  IF c.req.image THEN [c1 EXCEPT !.pc = "reading"] ELSE SendFetch(c1, 0)

PrimaryContent(response) ==
    IF Len(response.files) > 0 THEN response.files[1].content ELSE <<>>

Notify(c, content, isComplete) ==
    IF c.req.onProgress
    THEN [c EXCEPT !.progress = Append(@, [content |-> content, isComplete |-> isComplete])]
    ELSE c

\* ensureCompleteGeneration after its loop: the final progress callback, the return
EnsureExit(c) ==
    Finish(Notify(c, PrimaryContent(c.currentResponse),
                  validateSinglePageContent(c.currentResponse).isComplete),
           c.currentResponse)

\* the loop without its validation
ContinueLoopUnvalidated(response, attempt) == attempt < maxRetries

\* the test of the for loop and the validation at the top of its body
ContinueLoop(response, attempt) ==
    attempt < maxRetries /\ ~validateSinglePageContent(response).isComplete

\* ensureCompleteGeneration at the top of its loop with currentResponse = response
EnsureLoop(c, response, attempt) ==
    LET c1 == [c EXCEPT !.currentResponse = response, !.contAttempt = attempt]
    IN  IF attempt < maxRetries /\ validateThrows(response)
        THEN Finish(c1, Failure("TypeError"))
        ELSE IF ContinueLoop(response, attempt)
        THEN StartGemini([c1 EXCEPT !.contCalls = @ + 1], "continuation")
        ELSE IF attempt < maxRetries THEN Finish(c1, response)
        ELSE EnsureExit(c1)

\* mergeContent reads files[0].content of both responses; of a files that is no
\* array the read is undefined and the string method called on it a TypeError,
\* which the catch of the loop answers like a failed continuation
MergeRuns(existingResponse, continuationResponse) ==
    existingResponse.shape = "array" /\ continuationResponse.shape = "array"

\* generateWebsite without its test of the project type
GeminiReturnedAnyProject(c, response) ==
    IF c.mode = "first"
    THEN LET c1 == [c EXCEPT !.firstResponse = response]
         IN  IF response.success THEN EnsureLoop(c1, response, 0) ELSE Finish(c1, response)
    ELSE IF response.success /\ Len(response.files) > 0 /\ MergeRuns(c.currentResponse, response)
         THEN LET merged == mergeContent(c.currentResponse, response)
                  c1 == [c EXCEPT !.merges = Append(@, PrimaryContent(response))]
              IN  EnsureLoop(Notify(c1, PrimaryContent(merged), FALSE), merged, c.contAttempt + 1)
         ELSE EnsureExit(c)

\* generateWithGemini returns response to its caller
GeminiReturned(c, response) ==
    IF c.mode = "first"
    THEN LET c1 == [c EXCEPT !.firstResponse = response]
         IN  IF response.success /\ c.req.projectType = "single-page"
             THEN EnsureLoop(c1, response, 0)
             ELSE Finish(c1, response)
    ELSE IF response.success /\ Len(response.files) > 0 /\ MergeRuns(c.currentResponse, response)
         THEN LET merged == mergeContent(c.currentResponse, response)
                  c1 == [c EXCEPT !.merges = Append(@, PrimaryContent(response))]
              IN  EnsureLoop(Notify(c1, PrimaryContent(merged), FALSE), merged, c.contAttempt + 1)
         ELSE EnsureExit(c)

\* generateWebsite without its catch: what generateWithGemini throws rejects the
\* promise of generateWebsite
GeminiThrewUncaught(c, msg) ==
    IF c.mode = "first" THEN [c EXCEPT !.pc = "rejected"] ELSE EnsureExit(c)

\* generateWithGemini throws: the catch of generateWebsite, or of the loop of
\* ensureCompleteGeneration (break)
GeminiThrew(c, msg) ==
    IF c.mode = "first" THEN Finish(c, Failure(msg)) ELSE EnsureExit(c)

\* the catch of the retry loop: rethrow on the last attempt, else go round again
CatchInLoop(c, msg) ==
    IF c.attempt = maxAttempts THEN GeminiThrew(c, msg)
    ELSE SendFetch([c EXCEPT !.attempt = @ + 1, !.lastError = msg], 0)

\* the return of the revision in src/script.js, which completes the file list
EnhanceReturnEnsured(c) ==
    GeminiReturned(c, Response(TRUE, ensureAllRequiredFiles([n \in 1..Len(c.tasks) |-> c.tasks[n].file]),
                               c.pages, NoError))

\* enhanceWithImages has every file done: return { success: true, files, pages }
EnhanceReturn(c) ==
    GeminiReturned(c, Response(TRUE, [n \in 1..Len(c.tasks) |-> c.tasks[n].file], c.pages, NoError))

\* one file of response.files.map(async file => ...): its sections are fetched
\* one after the other; without a Clarifai key generateContextualImage returns
\* null at once
FileTask(file, clarifaiKey) ==
    [file |-> file,
     todo |-> IF file.type = "html" /\ clarifaiKey # NoKey
              THEN identifyImageSections(file.content) ELSE <<>>]

Enhance(c, response, clarifaiKey) ==
    LET tasks == [n \in 1..Len(response.files) |-> FileTask(response.files[n], clarifaiKey)]
        c0 == [c EXCEPT !.firstParsed = IF c.mode = "first" THEN response ELSE @]
        c1 == [c0 EXCEPT !.tasks = tasks, !.pages = response.pages]
    IN  IF ~response.success THEN GeminiReturned(c0, response)
        \* response.files.map of a files that is no array is a TypeError: the catch
        \* parses the content again and returns that, which is the same response
        ELSE IF response.shape # "array" THEN GeminiReturned(c0, response)
        ELSE IF \A n \in 1..Len(tasks) : tasks[n].todo = <<>> THEN EnhanceReturn(c1)
        ELSE [c1 EXCEPT !.pc = "images"]

\* const response = this.parseGeneratedContent(content), then the rest with that value
enhanceWithImages(c, content, clarifaiKey) ==
    Enhance(c, ParsedOutputs[content], clarifaiKey)

\* what the generative endpoint may answer
HttpOutcomes == {"503", "503 not JSON", "400", "no text", "network error", "text"}

\* one response of the generative endpoint is handled
HandleResponse(c, outcome, content, clarifaiKey) ==
    LET c1 == [c EXCEPT !.statuses = Append(@, outcome)]
    IN  CASE outcome = "503" ->
                IF c.attempt < maxAttempts THEN [c1 EXCEPT !.pc = "backoff"]
                ELSE CatchInLoop(c1, "Gemini API error (503)")
          [] outcome = "503 not JSON" -> CatchInLoop(c1, "SyntaxError")
          [] outcome = "400" -> CatchInLoop(c1, "Gemini API error (400)")
          [] outcome = "no text" -> CatchInLoop(c1, "No content generated from Gemini")
          [] outcome = "text" ->
                enhanceWithImages(Notify([c EXCEPT !.sends = <<>>, !.statuses = <<>>], content, TRUE),
                                  content, clarifaiKey)

\* generateWebsite without its test of the key
generateWebsiteUnchecked(request, apiKey) ==
    LET c == [IdleCall EXCEPT !.req = request, !.apiKey = apiKey, !.via = "service"]
    IN  IF request.provider = "gemini" THEN StartGemini(c, "first")
        ELSE IF request.provider = "openai" THEN Finish(c, Failure("OpenAI integration coming soon"))
        ELSE Finish(c, Failure("Claude integration coming soon"))

\* generateWebsite up to its first await
generateWebsite(request, apiKey) ==
    LET c == [IdleCall EXCEPT !.req = request, !.apiKey = apiKey, !.via = "service"]
    IN  IF apiKey = NoKey THEN Finish(c, Failure("API key not found"))
        ELSE IF request.provider = "gemini" THEN StartGemini(c, "first")
        ELSE IF request.provider = "openai" THEN Finish(c, Failure("OpenAI integration coming soon"))
        ELSE Finish(c, Failure("Claude integration coming soon"))

\* handleGenerate of the page up to its first await: the two refusals with
\* their toasts, else setIsGenerating(true) and the call of the service
handleGenerate(promptGiven, request, apiKey) ==
    IF ~promptGiven /\ ~request.image
    THEN [IdleCall EXCEPT !.req = request, !.via = "page", !.toast = "Input Required"]
    ELSE IF apiKey = NoKey
    THEN [IdleCall EXCEPT !.req = request, !.via = "page", !.toast = "API Key Required"]
    ELSE [generateWebsite(request, apiKey) EXCEPT !.via = "page"]

\* handleGenerate after its await: the toast of the outcome, setIsGenerating(false)
handleGenerateReturn(c) ==
    IF c.via = "page"
    THEN [IdleCall EXCEPT !.toast = IF c.result.success THEN "Website Generated!"
                                    ELSE "Generation Failed"]
    ELSE IdleCall

----------------------------------------------------------------------------
(* UnsplashService.detectBusinessType, with extractKeywords, as            *)
(* getContextualImages calls them on the prompt (src/unnamed/part_001).    *)
(* The content is the lower-cased prompt as the sequence of its words.     *)

\* the keys of businessPatterns, in the order of the object literal
BusinessTypes ==
    <<"restaurant", "fitness", "technology", "fashion", "travel", "education", "medical",
      "real-estate", "finance", "creative", "automotive", "beauty">>

businessPatterns(type) ==
    CASE type = "restaurant" -> {"restaurant", "food", "menu", "dining", "cuisine", "chef", "kitchen",
                                 "meal", "pizza", "burger", "coffee", "cafe", "bar"}
      [] type = "fitness" -> {"fitness", "gym", "workout", "exercise", "health", "training", "muscle",
                              "weight", "yoga", "pilates", "cardio"}
      [] type = "technology" -> {"tech", "software", "app", "development", "coding", "programming",
                                 "digital", "computer", "system", "data", "ai", "machine"}
      [] type = "fashion" -> {"fashion", "clothing", "style", "apparel", "boutique", "designer",
                              "trend", "outfit", "collection", "brand"}
      [] type = "travel" -> {"travel", "tourism", "hotel", "vacation", "trip", "destination",
                             "booking", "resort", "adventure", "explore"}
      [] type = "education" -> {"education", "school", "learning", "course", "student", "teacher",
                                "university", "academic", "study", "training"}
      [] type = "medical" -> {"medical", "health", "doctor", "clinic", "hospital", "healthcare",
                              "treatment", "patient", "medicine"}
      [] type = "real-estate" -> {"property", "real", "estate", "house", "home", "apartment", "rent",
                                  "buy", "mortgage", "investment"}
      [] type = "finance" -> {"finance", "bank", "money", "investment", "loan", "credit",
                              "financial", "accounting", "insurance"}
      [] type = "creative" -> {"design", "creative", "art", "portfolio", "graphic", "photography",
                               "artistic", "visual", "gallery", "studio"}
      [] type = "automotive" -> {"car", "auto", "vehicle", "automotive", "repair", "service",
                                 "garage", "mechanic", "driving"}
      [] type = "beauty" -> {"beauty", "salon", "spa", "skincare", "makeup", "cosmetic", "hair",
                             "nail", "massage", "wellness"}

\* the words a prompt is made of
PromptWords ==
    {"coffee", "shop", "landing", "page", "training", "healthcare", "hair", "investment"}

\* the patterns of the table that are substrings of a word
PatternsWithin(word) ==
    CASE word = "coffee"     -> {"coffee"}
      [] word = "training"   -> {"training", "ai"}
      [] word = "healthcare" -> {"health", "healthcare", "car"}
      [] word = "hair"       -> {"hair", "ai"}
      [] word = "investment" -> {"investment"}
      [] OTHER               -> {}

\* the patterns for which content.includes(pattern) holds: no pattern has a
\* space, so it lies within a word
includes(content) == UNION {PatternsWithin(content[n]) : n \in 1..Len(content)}

\* extractKeywords: the words of more than 3 characters that are no stop words
\* ('page' is one), as a set; a prompt of the model has fewer than 10 of them
extractKeywords(content) ==
    {content[n] : n \in 1..Len(content)} \ {"page"}

\* patterns.forEach(pattern => ...): the score of one type
ScoreOf(type, included, keywords) ==
    2 * Cardinality(businessPatterns(type) \cap included)
    + Cardinality((businessPatterns(type) \ included) \cap keywords)

\* a loop that also takes a type whose score equals the highest so far
RECURSIVE ScanTypesLastWins(_, _, _, _, _)
ScanTypesLastWins(included, keywords, n, maxScore, detectedType) ==
    IF n > Len(BusinessTypes) THEN detectedType
    ELSE IF ScoreOf(BusinessTypes[n], included, keywords) >= maxScore
         THEN ScanTypesLastWins(included, keywords, n + 1, ScoreOf(BusinessTypes[n], included, keywords),
                                BusinessTypes[n])
         ELSE ScanTypesLastWins(included, keywords, n + 1, maxScore, detectedType)

\* the for loop over Object.entries(businessPatterns) from entry n on
RECURSIVE ScanTypes(_, _, _, _, _)
ScanTypes(included, keywords, n, maxScore, detectedType) ==
    IF n > Len(BusinessTypes) THEN detectedType
    ELSE IF ScoreOf(BusinessTypes[n], included, keywords) > maxScore
         THEN ScanTypes(included, keywords, n + 1, ScoreOf(BusinessTypes[n], included, keywords),
                        BusinessTypes[n])
         ELSE ScanTypes(included, keywords, n + 1, maxScore, detectedType)

detectBusinessType(content, keywords) == ScanTypes(includes(content), keywords, 1, 0, "business")

IdleDetect == [pc |-> "idle", content |-> <<>>, businessType |-> "unset"]

----------------------------------------------------------------------------
(* The WebBuilder page: handleGenerate and the Generate button              *)
(* (src/src/pages/WebBuilder.tsx). A generation is numbered by the order in *)
(* which handleGenerate started it.                                         *)

InitialPage ==
    [files |-> <<>>,                \* useState<FileNode[]>([])
     selectedFile |-> "",           \* useState<string>('')
     currentPage |-> "index.html",  \* useState('index.html')
     pages |-> <<"index.html">>,    \* useState<string[]>(['index.html'])
     isGenerating |-> FALSE,        \* useState(false)
     toast |-> "none",              \* the title of the toast shown last
     \* per generateWebsite call of handleGenerate: "pending" while the await
     \* has not resumed, then how it settled
     calls |-> <<>>,
     shown |-> 0]                   \* the generation files was taken from

\* a button that is disabled only for want of input
GenerateDisabledWithoutInput(u, promptGiven, image) == ~promptGiven /\ ~image

\* disabled={isGenerating || (!prompt.trim() && !uploadedImage)}
GenerateDisabled(u, promptGiven, image) == u.isGenerating \/ (~promptGiven /\ ~image)

\* handleGenerate up to its await: the two refusals with their toasts, else
\* setIsGenerating(true) and the call of AIService.generateWebsite
handleGenerateCalled(u, promptGiven, image, apiKey) ==
    IF ~promptGiven /\ ~image THEN [u EXCEPT !.toast = "Input Required"]
    ELSE IF apiKey = NoKey THEN [u EXCEPT !.toast = "API Key Required"]
    ELSE [u EXCEPT !.isGenerating = TRUE, !.calls = Append(@, "pending")]

\* handleGenerate after the await of generation k returned response: the
\* state of a success, the toast, and in finally setIsGenerating(false).
\* A success response of the service carries pages, so that
\* response.pages || ['index.html'] is response.pages.
handleGenerateResumed(u, k, response) ==
    IF response.success
    THEN [u EXCEPT !.files = response.files,
                   !.pages = response.pages,
                   !.currentPage = IF Len(response.pages) > 0 THEN response.pages[1]
                                   ELSE "index.html",
                   !.selectedFile = IF Len(response.files) > 0 THEN response.files[1].path
                                    ELSE "",
                   !.toast = "Website Generated!",
                   !.shown = k,
                   !.calls[k] = "success",
                   !.isGenerating = FALSE]
    ELSE [u EXCEPT !.toast = "Generation Failed", !.calls[k] = "failure",
                   !.isGenerating = FALSE]

\* the catch block, for an exception out of the try block, and finally
handleGenerateCaught(u, k) ==
    [u EXCEPT !.toast = "Error", !.calls[k] = "thrown", !.isGenerating = FALSE]

----------------------------------------------------------------------------
(* ensureCompleteGeneration on its own, from await to await, with the      *)
(* answers of generateWithGemini to its continuation requests as inputs.   *)
(* ensure.pc is where the call is:                                         *)
(*   "idle"   not started                                                  *)
(*   "await"  a continuation request is with generateWithGemini            *)
(*   "done"   the promise has settled with ensure.out                      *)

NoValidation == [isComplete |-> FALSE, missingSections |-> <<>>, lastSection |-> "unset"]

IdleEnsure ==
    [pc |-> "idle",
     response |-> Pending,         \* the parameter response
     currentResponse |-> Pending,
     attempt |-> 0,
     validation |-> NoValidation,  \* const validation of the latest round
     \* what buildContinuationPrompt was given for the request in flight
     prompt |-> [lastSection |-> "unset", missingSections |-> <<>>],
     \* the latest call of mergeContent: its two arguments and what it returned
     merge |-> [existing |-> Pending, continuation |-> Pending, merged |-> Pending],
     merges |-> 0,
     out |-> Pending]

\* the loop from its test on, up to the await of generateWithGemini or the return
EnsureTop(e) ==
    IF e.attempt >= maxRetries
    THEN [e EXCEPT !.pc = "done", !.out = e.currentResponse]
    ELSE LET validation == validateSinglePageContent(e.currentResponse)
             e1 == [e EXCEPT !.validation = validation]
         IN  IF validation.isComplete
             THEN [e1 EXCEPT !.pc = "done", !.out = e.currentResponse]
             ELSE [e1 EXCEPT !.pc = "await",
                             !.prompt = [lastSection |-> validation.lastSection,
                                         missingSections |-> validation.missingSections]]

\* generateWithGemini has returned continuationResponse
ContinuationReturned(e, continuationResponse) ==
    IF continuationResponse.success /\ Len(continuationResponse.files) > 0
    THEN LET merged == mergeContent(e.currentResponse, continuationResponse)
         IN  EnsureTop([e EXCEPT !.currentResponse = merged, !.attempt = @ + 1,
                                 !.merges = @ + 1,
                                 !.merge = [existing |-> e.currentResponse,
                                            continuation |-> continuationResponse,
                                            merged |-> merged]])
    ELSE [e EXCEPT !.pc = "done", !.out = e.currentResponse]

\* generateWithGemini has thrown: catch, break
ContinuationThrew(e) == [e EXCEPT !.pc = "done", !.out = e.currentResponse]

----------------------------------------------------------------------------
(* The image placeholder resolver: enhanceWithImages of the revision kept  *)
(* in src/unnamed/part_000 (and, with the same lines, in src/script.js),   *)
(* which resolves the [IMAGE:<name>] markers of the pages with             *)
(* UnsplashService.getContextualImages of src/unnamed/part_001.            *)
(* resolver.pc is where the call waits:                                    *)
(*   "idle"    not started                                                 *)
(*   "search"  a request of searchImages is in flight                      *)
(*   "done"    the promise of enhanceWithImages has settled with its out   *)

MaxPhotos == 2       \* photos one search returns at most

\* the names <name> that the markers of the model's pages carry
MarkerNames == {"hero", "about", "gallery1", "gallery2", "gallery3", "gallery4", "gallery5"}

\* the text [IMAGE:<name>]
MarkerText(fullSection) ==
    CASE fullSection = "hero"     -> "[IMAGE:hero]"
      [] fullSection = "about"    -> "[IMAGE:about]"
      [] fullSection = "gallery1" -> "[IMAGE:gallery1]"
      [] fullSection = "gallery2" -> "[IMAGE:gallery2]"
      [] fullSection = "gallery3" -> "[IMAGE:gallery3]"
      [] fullSection = "gallery4" -> "[IMAGE:gallery4]"
      [] fullSection = "gallery5" -> "[IMAGE:gallery5]"

\* file.content.match(/\[IMAGE:(\w+\d*)\]/g) with match.replace(/\[IMAGE:|\]/g, '')
\* applied to each match: the names of the markers of a text, in their order
imageMatches(content) ==
    LET found == SelectSeq(content, LAMBDA t : \E name \in MarkerNames : t = MarkerText(name))
    IN  [i \in 1..Len(found) |-> CHOOSE name \in MarkerNames : MarkerText(name) = found[i]]

\* fullSection.replace(/\d+$/, '')
baseSection(fullSection) ==
    IF fullSection \in {"gallery1", "gallery2", "gallery3", "gallery4", "gallery5"}
    THEN "gallery" ELSE fullSection

\* the body of imageMatches.forEach: sectionsMap as the sequence of its entries
\* [base, variants] in the order the keys were added
RECURSIVE AddSections(_, _)
AddSections(map, names) ==
    IF names = <<>> THEN map
    ELSE LET fullSection == Head(names)
             at == {k \in 1..Len(map) : map[k].base = baseSection(fullSection)}
         IN  AddSections(
                 IF at = {}
                 THEN Append(map, [base |-> baseSection(fullSection), variants |-> <<fullSection>>])
                 ELSE LET k == CHOOSE k \in at : TRUE
                      IN  IF \E i \in 1..Len(map[k].variants) : map[k].variants[i] = fullSection
                          THEN map
                          ELSE [map EXCEPT ![k].variants = Append(@, fullSection)],
                 Tail(names))

\* htmlFiles.forEach(file => ...) over response.files.filter(f => f.type === 'html')
RECURSIVE sectionsMapOf(_, _)
sectionsMapOf(files, map) ==
    IF files = <<>> THEN map
    ELSE sectionsMapOf(Tail(files),
                       IF Head(files).type = "html"
                       THEN AddSections(map, imageMatches(Head(files).content))
                       ELSE map)

\* UnsplashService.getImageMarkup(image, `${variant} image`, 'w-full h-auto object-cover')
getImageMarkup(image, variant) ==
    <<"<img", "src=", "QUOTE", image, "QUOTE", "alt=", "QUOTE", variant, "SP", "image",
      "QUOTE", "/>">>

\* updatedContent.replace(text, imageHtml) with a string pattern: the first
\* occurrence of the text, and no other
RECURSIVE ReplaceFirst(_, _, _)
ReplaceFirst(s, text, imageHtml) ==
    IF s = <<>> THEN <<>>
    ELSE IF Head(s) = text THEN imageHtml \o Tail(s)
    ELSE <<Head(s)>> \o ReplaceFirst(Tail(s), text, imageHtml)

\* a loop that gives each image to one variant and stops when the images run out
RECURSIVE ReplaceVariantsNoCycle(_, _, _, _)
ReplaceVariantsNoCycle(content, variants, images, index) ==
    IF index >= Len(variants) \/ index >= Len(images) THEN content
    ELSE ReplaceVariantsNoCycle(
             ReplaceFirst(content, MarkerText(variants[index + 1]),
                          getImageMarkup(images[index + 1], variants[index + 1])),
             variants, images, index + 1)

\* variants.forEach((variant, index) => ...) from index on (index counts from 0)
RECURSIVE ReplaceVariants(_, _, _, _)
ReplaceVariants(content, variants, images, index) ==
    IF index >= Len(variants) THEN content
    ELSE ReplaceVariants(
             ReplaceFirst(content, MarkerText(variants[index + 1]),
                          getImageMarkup(images[(index % Len(images)) + 1], variants[index + 1])),
             variants, images, index + 1)

\* Object.entries(sectionsMap).forEach(([baseSection, variants]) => ...) from
\* entry k on; imageMap[k] is imageMap[baseSection] of entry k
RECURSIVE ReplaceSections(_, _, _, _)
ReplaceSections(content, map, imageMap, k) ==
    IF k > Len(map) THEN content
    ELSE ReplaceSections(
             IF imageMap[k] # <<>>
             THEN ReplaceVariants(content, map[k].variants, imageMap[k], 0)
             ELSE content,
             map, imageMap, k + 1)

\* response.files.map(file => ...)
ReplaceInFiles(files, map, imageMap) ==
    [n \in 1..Len(files) |->
        IF files[n].type = "html"
        THEN [files[n] EXCEPT !.content = ReplaceSections(@, map, imageMap, 1)]
        ELSE files[n]]

\* what one request of searchImages may come to: the fetch rejects, the status
\* is not a success, the body is not JSON, or results arrive (none, or some)
SearchOutcomes ==
    {[status |-> s, results |-> 0] : s \in {"rejected", "error", "bad body"}}
        \cup {[status |-> "ok", results |-> n] : n \in 0..MaxPhotos}

\* searchImages: data.results, and [] from its catch
searchImages(outcome) ==
    IF outcome.status = "ok"
    THEN SubSeq(<<"photo1", "photo2", "photo3">>, 1, outcome.results)
    ELSE <<>>

\* how many queries generateAlternativeQueries returns for a section: three
\* of its own for the sections it knows, and the three fallback queries
generateAlternativeQueries(section) ==
    IF section \in {"hero", "about", "gallery"} THEN 6 ELSE 3

IdleResolve ==
    [pc |-> "idle",
     response |-> Pending,    \* const response = this.parseGeneratedContent(content)
     sectionsMap |-> <<>>,
     imageMap |-> <<>>,       \* result of getContextualImages, per entry of sectionsMap
     stage |-> "query",       \* which search is in flight: "query", "alternative", "category"
     alt |-> 0,               \* the alternative query in flight
     out |-> Pending]         \* what enhanceWithImages returned

\* getContextualImages has returned imageMap: the replacement, and the return
ResolveReturn(c) ==
    [c EXCEPT !.pc = "done",
              !.out = [c.response EXCEPT
                          !.files = ReplaceInFiles(c.response.files, c.sectionsMap, c.imageMap)]]

\* result[section] = images; the for loop goes to its next section, or returns
SectionDone(c, images) ==
    LET c1 == [c EXCEPT !.imageMap = Append(@, images), !.stage = "query", !.alt = 0]
    IN  IF Len(c1.imageMap) = Len(c.sectionsMap) THEN ResolveReturn(c1)
        ELSE [c1 EXCEPT !.pc = "search"]

\* a lookup that gives up the whole call when the last search of a section is empty
CategorySettledOrAbort(c, images) ==
    IF images = <<>>
    THEN [c EXCEPT !.pc = "done", !.out = Response(FALSE, <<>>, <<>>, "no images")]
    ELSE SectionDone(c, images)

\* getImagesByCategory has settled: result[section] = fallbackImages, empty or not
CategorySettled(c, images) == SectionDone(c, images)

\* one search of the section in turn has settled with images
SearchSettled(c, images) ==
    LET section == c.sectionsMap[Len(c.imageMap) + 1].base
    IN  CASE c.stage = "query" ->
                IF images # <<>> THEN SectionDone(c, images)
                ELSE [c EXCEPT !.stage = "alternative", !.alt = 1]
          [] c.stage = "alternative" ->
                IF images # <<>> THEN SectionDone(c, images)
                ELSE IF c.alt < generateAlternativeQueries(section) THEN [c EXCEPT !.alt = @ + 1]
                ELSE [c EXCEPT !.stage = "category"]
          [] c.stage = "category" -> CategorySettled(c, images)

\* enhanceWithImages up to its first await, response being what the parser made
\* of the content
ResolveStart(response) ==
    LET map == IF response.success THEN sectionsMapOf(response.files, <<>>) ELSE <<>>
        c == [IdleResolve EXCEPT !.response = response, !.sectionsMap = map]
    IN  IF ~response.success \/ map = <<>> THEN [c EXCEPT !.pc = "done", !.out = response]
        ELSE [c EXCEPT !.pc = "search"]

----------------------------------------------------------------------------
(* The parser harness: parseGeneratedContent applied to one raw output, and  *)
(* then again to the same output or to another one                          *)

MaxParses == 3

\* the outputs parsed between two calls on the same output
OtherSources ==
    { Source("json", <<File("index.html", HtmlComplete, "html")>>, TRUE, TRUE, "bare", FALSE, 0),
      Source("json", TruncatedDoc, FALSE, TRUE, "fenced", TRUE, 0),
      Source("empty", <<>>, FALSE, FALSE, "bare", FALSE, 0) }

InitParse ==
    /\ pSource \in Sources
    /\ pInput = Render(pSource)
    /\ pStage = "input"
    /\ pResult = Pending
    /\ pLog = <<>>
    /\ apiKeys = InitialApiKeys
    /\ localStorage = [p \in KeyNames |-> NoKey]
    /\ keyEdits = 0
    /\ lastSet = NeverSet
    /\ g = IdleCall
    /\ resolver = IdleResolve
    /\ ensure = IdleEnsure
    /\ detect = IdleDetect
    /\ ui = InitialPage

Parse ==
    /\ pStage = "input"
    /\ pResult' = parseGeneratedContent(pInput)
    /\ pStage' = "parsed"
    /\ pLog' = Append(pLog, [source |-> pSource, input |-> pInput, result |-> pResult'])
    /\ UNCHANGED <<pSource, pInput, kvars, g, resolver, ensure, detect, ui>>

\* the next call: on an output parsed before or on another one
ParseAgain(source) ==
    /\ pStage = "parsed"
    /\ Len(pLog) < MaxParses
    /\ pSource' = source
    /\ pInput' = Render(source)
    /\ pStage' = "input"
    /\ pResult' = Pending
    /\ UNCHANGED <<pLog, kvars, g, resolver, ensure, detect, ui>>

NextParse ==
    \/ Parse
    \/ \E source \in {pLog[n].source : n \in 1..Len(pLog)} \cup OtherSources : ParseAgain(source)

SpecParse == InitParse /\ [][NextParse]_vars

----------------------------------------------------------------------------
(* The generation pipeline *)

GenerateWebsite(request) ==
    /\ g.pc = "idle"
    /\ g' = generateWebsite(request, getApiKey(apiKeys, localStorage, request.provider))
    /\ UNCHANGED <<kvars, pvars, resolver, ensure, detect, ui>>

\* the Generate button of the page: handleGenerate with the prompt typed or
\* not, the screenshot, model and project type chosen; it passes no onProgress
HandleGenerate(promptGiven, request) ==
    /\ g.pc = "idle"
    /\ ~request.onProgress
    /\ g' = handleGenerate(promptGiven, request,
                           getApiKey(apiKeys, localStorage, request.provider))
    /\ UNCHANGED <<kvars, pvars, resolver, ensure, detect, ui>>

\* fileToBase64 settles: the FileReader loaded the file, or failed
ReadSettle(loaded) ==
    /\ g.pc = "reading"
    /\ g' = IF loaded THEN SendFetch(g, 0) ELSE GeminiThrew(g, "read error")
    /\ UNCHANGED <<kvars, pvars, resolver, ensure, detect, ui>>

\* the request in flight settles: with a response, or fetch rejects
FetchSettle(outcome, content) ==
    /\ g.pc = "fetch"
    /\ g' = IF outcome = "network error"
            THEN CatchInLoop([g EXCEPT !.statuses = Append(@, outcome)], "TypeError")
            ELSE HandleResponse(g, outcome, content, getApiKey(apiKeys, localStorage, "clarifai"))
    /\ UNCHANGED <<kvars, pvars, resolver, ensure, detect, ui>>

\* the timer of the overload retry fires, late seconds after it was due
BackoffElapsed(late) ==
    /\ g.pc = "backoff"
    /\ g' = SendFetch([g EXCEPT !.attempt = @ + 1], g.attempt * backoffSeconds + late)
    /\ UNCHANGED <<kvars, pvars, resolver, ensure, detect, ui>>

\* the image request of file n settles with a URL or not; its next section, if
\* any, is requested; when no file has a section left, Promise.all resolves
ImageSettle(n, imageUrl) ==
    /\ g.pc = "images"
    /\ n \in 1..Len(g.tasks)
    /\ g.tasks[n].todo # <<>>
    /\ LET t == g.tasks[n]
           content == IF imageUrl THEN ReplaceUnsplash(t.file.content, ImgTag(Head(t.todo)))
                      ELSE t.file.content
           rest == IF getApiKey(apiKeys, localStorage, "clarifai") # NoKey THEN Tail(t.todo) ELSE <<>>
           c1 == [g EXCEPT !.tasks[n] = [file |-> [t.file EXCEPT !.content = content], todo |-> rest]]
       IN  g' = IF \A m \in 1..Len(c1.tasks) : c1.tasks[m].todo = <<>>
                THEN EnhanceReturn(c1) ELSE c1
    /\ UNCHANGED <<kvars, pvars, resolver, ensure, detect, ui>>

\* the caller has its answer; the service is ready for the next call
Return ==
    /\ g.pc = "done"
    /\ g' = handleGenerateReturn(g)
    /\ UNCHANGED <<kvars, pvars, resolver, ensure, detect, ui>>

\* the settings dialog is submitted while no generation runs
SubmitApiKey(provider, apiKey) ==
    /\ g.pc = "idle"
    /\ keyEdits < MaxKeyEdits
    /\ handleApiKeySubmit(provider, apiKey)
    /\ UNCHANGED <<g, pvars, resolver, ensure, detect, ui>>

Init ==
    /\ apiKeys = InitialApiKeys
    /\ localStorage = [p \in KeyNames |-> NoKey]
    /\ keyEdits = 0
    /\ lastSet = NeverSet
    /\ g = IdleCall
    /\ resolver = IdleResolve
    /\ ensure = IdleEnsure
    /\ detect = IdleDetect
    /\ ui = InitialPage
    /\ pSource = Source("empty", <<>>, FALSE, FALSE, "bare", FALSE, 0)
    /\ pInput = <<>>
    /\ pStage = "off"
    /\ pResult = Pending
    /\ pLog = <<>>

Next ==
    \/ \E request \in Requests : GenerateWebsite(request)
    \/ \E promptGiven \in BOOLEAN, request \in Requests : HandleGenerate(promptGiven, request)
    \/ \E loaded \in BOOLEAN : ReadSettle(loaded)
    \/ \E outcome \in HttpOutcomes \ {"text"} : FetchSettle(outcome, <<>>)
    \/ \E content \in Outputs(g.mode) : FetchSettle("text", content)
    \/ \E late \in 0..MaxTimerLate : BackoffElapsed(late)
    \/ \E n \in 1..MaxFiles, imageUrl \in BOOLEAN : ImageSettle(n, imageUrl)
    \/ Return
    \/ \E provider \in Providers, apiKey \in {NoKey, "K2"} : SubmitApiKey(provider, apiKey)

Spec == Init /\ [][Next]_vars

----------------------------------------------------------------------------
(* The pipeline with every wait of a call coming to its end: the same      *)
(* actions on fewer inputs, with weak fairness of the events that the      *)
(* environment of a call owes it                                           *)

FairRequests ==
    [projectType : {"single-page", "multi-page"}, provider : Providers,
     image : BOOLEAN, onProgress : {FALSE}]

FairOutputs(mode) ==
    IF mode = "first"
    THEN { Json(<<File("index.html", HtmlGallery, "html")>>),
           Json(<<File("index.html", HtmlPartial, "html")>>),
           <<"{", "KEY_files", "{", "}", "}">> }
    ELSE { Json(<<File("index.html", FragmentSome, "html")>>),
           <<"Sorry", "SP", "LOREM">> }

\* the FileReader fires one of its events, a request is answered or fails, the
\* timer of the overload wait fires, an image request is answered or fails
Settle ==
    \/ \E loaded \in BOOLEAN : ReadSettle(loaded)
    \/ \E outcome \in HttpOutcomes \ {"text"} : FetchSettle(outcome, <<>>)
    \/ \E content \in FairOutputs(g.mode) : FetchSettle("text", content)
    \/ \E late \in 0..MaxTimerLate : BackoffElapsed(late)
    \/ \E n \in 1..MaxFiles, imageUrl \in BOOLEAN : ImageSettle(n, imageUrl)

NextFair ==
    \/ \E request \in FairRequests : GenerateWebsite(request)
    \/ Settle
    \/ Return
    \/ \E provider \in Providers, apiKey \in {NoKey, "K2"} : SubmitApiKey(provider, apiKey)

\* In a state in which the call waits (g.pc is "reading", "fetch", "backoff"
\* or "images") a step of Settle is possible, and every step taken from such
\* a state is a step of Settle.  Weak fairness of Settle, WF_vars(Settle), is
\* therefore: the call is infinitely often not waiting, or steps are taken
\* from waiting states infinitely often.
Waiting == g.pc \in {"reading", "fetch", "backoff", "images"}
EveryWaitEnds == []<>(~Waiting) \/ []<><<Waiting>>_vars

SpecFair == Init /\ [][NextFair]_vars /\ EveryWaitEnds

----------------------------------------------------------------------------
(* The key store next to a running generation: the settings dialog may be  *)
(* submitted at any moment, also while a call waits, and the page may be   *)
(* loaded anew between two calls                                           *)

MaxKeySaves == 2     \* submissions of the settings dialog

KeyRequests ==
    [projectType : {"single-page"}, provider : {"gemini", "openai"},
     image : {FALSE}, onProgress : {FALSE}]

\* the settings dialog is submitted
SaveApiKey(provider, apiKey) ==
    /\ keyEdits < MaxKeySaves
    /\ handleApiKeySubmit(provider, apiKey)
    /\ UNCHANGED <<g, pvars, resolver, ensure, detect, ui>>

\* the page is loaded anew: the static apiKeys is initialised again, the
\* entries of localStorage stay
Reload ==
    /\ g.pc = "idle"
    /\ apiKeys # InitialApiKeys
    /\ apiKeys' = InitialApiKeys
    /\ lastSet' = NeverSet
    /\ UNCHANGED <<localStorage, keyEdits, g, pvars, resolver, ensure, detect, ui>>

NextKeys ==
    \/ \E request \in KeyRequests : GenerateWebsite(request)
    \/ \E outcome \in {"503", "400"} : FetchSettle(outcome, <<>>)
    \/ \E content \in FairOutputs(g.mode) : FetchSettle("text", content)
    \/ BackoffElapsed(0)
    \/ \E n \in 1..MaxFiles, imageUrl \in BOOLEAN : ImageSettle(n, imageUrl)
    \/ Return
    \/ \E provider \in Providers, apiKey \in {NoKey, "K1", "K2"} : SaveApiKey(provider, apiKey)
    \/ Reload

SpecKeys == Init /\ [][NextKeys]_vars

----------------------------------------------------------------------------
(* The marker resolver on its own: one enhanceWithImages call of the       *)
(* earlier revision on a parsed response, stepped from search to search    *)

Page(body) == <<"<!DOCTYPE html>", "<body>">> \o body \o <<"</body>", "</html>">>

\* what the parser may have made of the content
MarkerResponses ==
    { Response(TRUE,
               <<File("index.html",
                      Page(<<MarkerText("hero"), "LOREM", MarkerText("gallery1"),
                             MarkerText("gallery2"), MarkerText("gallery3")>>), "html")>>,
               <<"index.html">>, NoError),
      Response(TRUE,
               <<File("index.html",
                      Page(<<MarkerText("hero"), "LOREM", MarkerText("hero"),
                             MarkerText("about")>>), "html")>>,
               <<"index.html">>, NoError),
      Response(TRUE,
               <<File("index.html", Page(<<MarkerText("hero"), MarkerText("about")>>), "html"),
                 File("about.html", Page(<<MarkerText("about"), "LOREM">>), "html"),
                 File("styles.css", <<"body", "{", MarkerText("hero"), "}">>, "css")>>,
               <<"index.html", "about.html">>, NoError),
      \* five gallery markers over two pages, not in the order of their numbers
      Response(TRUE,
               <<File("index.html",
                      Page(<<MarkerText("gallery2"), "LOREM", MarkerText("gallery1")>>), "html"),
                 File("about.html",
                      Page(<<MarkerText("gallery3"), MarkerText("gallery1"), MarkerText("gallery4"),
                             MarkerText("gallery5")>>), "html")>>,
               <<"index.html", "about.html">>, NoError),
      Response(TRUE, <<File("index.html", Page(<<"LOREM">>), "html")>>, <<"index.html">>, NoError),
      Failure("Failed to parse generated content") }

EnhanceWithMarkers(response) ==
    /\ resolver.pc = "idle"
    /\ resolver' = ResolveStart(response)
    /\ UNCHANGED <<kvars, g, pvars, ensure, detect, ui>>

\* the search in flight settles
SearchSettle(outcome) ==
    /\ resolver.pc = "search"
    /\ resolver' = SearchSettled(resolver, searchImages(outcome))
    /\ UNCHANGED <<kvars, g, pvars, ensure, detect, ui>>

\* the caller has its answer
ResolveReturned ==
    /\ resolver.pc = "done"
    /\ resolver' = IdleResolve
    /\ UNCHANGED <<kvars, g, pvars, ensure, detect, ui>>

NextMarkers ==
    \/ \E response \in MarkerResponses : EnhanceWithMarkers(response)
    \/ \E outcome \in SearchOutcomes : SearchSettle(outcome)
    \/ ResolveReturned

SpecMarkers == Init /\ [][NextMarkers]_vars

----------------------------------------------------------------------------
(* The completion loop on its own: ensureCompleteGeneration on first       *)
(* responses whose page has any of the sections and closing tags, with     *)
(* every answer a continuation request may get                             *)

\* a word of the page in which a pattern of the section matches
SectionMark(id) ==
    CASE id = "header" -> "<header>"
      [] id = "testimonials" -> "testimonial"
      [] id = "footer" -> "<footer>"
      [] OTHER -> id

SectionText(ids) == [n \in 1..Len(ids) |-> SectionMark(ids[n])]

\* the sections a page may have
SectionChoices ==
    { <<>>, SectionIds, <<"header", "hero">>, SubSeq(SectionIds, 1, 5), SubSeq(SectionIds, 2, 9),
      <<"footer">>, <<"hero", "contact">>, SubSeq(SectionIds, 1, 6) \o SubSeq(SectionIds, 8, 9) }

\* the closing tags a page may have: any of the three, in their order
CloserChoices ==
    { m \o b \o h : m \in {<<>>, <<"</main>">>}, b \in {<<>>, <<"</body>">>},
                     h \in {<<>>, <<"</html>">>} }

Document(ids, closers) ==
    <<"<!DOCTYPE html>", "<html>", "<head>", "</head>", "<body>", "<main>">>
    \o SectionText(ids) \o <<"LOREM">> \o closers

\* what the first call may have returned: a page, alone or with a stylesheet
\* and a script, or (from {"files": []}) no file at all
FirstResponses ==
    { Response(TRUE, <<File("index.html", Document(ids, closers), "html")>> \o others,
               <<"index.html">>, NoError) :
        ids \in SectionChoices, closers \in CloserChoices,
        others \in {<<>>, <<File("styles.css", CssText, "css"), File("script.js", JsText, "js")>>} }
    \cup { Response(TRUE, <<>>, <<"index.html">>, NoError) }

\* what the model may write for a continuation prompt: the sections alone, the
\* sections and the closing tags the prompt asks for, a whole document again,
\* one more section, or the sections after a header of its own
ContinuationTexts ==
    { SectionText(SubSeq(SectionIds, 5, 9)),
      SectionText(SubSeq(SectionIds, 5, 9)) \o <<"</main>", "</body>", "</html>">>,
      Document(SectionIds, <<"</main>", "</body>", "</html>">>),
      <<"stats">>,
      SectionText(<<"header", "hero", "about", "services">>) }

ContinuationResponses ==
    { Response(TRUE, <<File("index.html", text, "html")>>, <<"index.html">>, NoError) :
        text \in ContinuationTexts }
    \cup { Failure("Failed to parse generated content") }

EnsureCompleteGeneration(response) ==
    /\ ensure.pc = "idle"
    /\ ensure' = EnsureTop([IdleEnsure EXCEPT !.response = response, !.currentResponse = response])
    /\ UNCHANGED <<kvars, g, pvars, resolver, detect, ui>>

ContinuationSettle(continuationResponse) ==
    /\ ensure.pc = "await"
    /\ ensure' = ContinuationReturned(ensure, continuationResponse)
    /\ UNCHANGED <<kvars, g, pvars, resolver, detect, ui>>

ContinuationFail ==
    /\ ensure.pc = "await"
    /\ ensure' = ContinuationThrew(ensure)
    /\ UNCHANGED <<kvars, g, pvars, resolver, detect, ui>>

EnsureReturned ==
    /\ ensure.pc = "done"
    /\ ensure' = IdleEnsure
    /\ UNCHANGED <<kvars, g, pvars, resolver, detect, ui>>

NextEnsure ==
    \/ \E response \in FirstResponses : EnsureCompleteGeneration(response)
    \/ \E continuationResponse \in ContinuationResponses : ContinuationSettle(continuationResponse)
    \/ ContinuationFail
    \/ EnsureReturned

SpecEnsure == Init /\ [][NextEnsure]_vars

----------------------------------------------------------------------------
(* The prompt analysis on its own: detectBusinessType on prompts of up to  *)
(* MaxWords words                                                          *)

MaxWords == 4

\* the prompts of n words
Prompts(n) == [1..n -> PromptWords]

\* getContextualImages up to its log line: keywords, businessType
DetectBusinessType ==
    /\ detect.pc = "idle"
    /\ \E n \in 0..MaxWords : \E content \in Prompts(n) :
          detect' = [pc |-> "done", content |-> content,
                     businessType |-> detectBusinessType(content, extractKeywords(content))]
    /\ UNCHANGED <<kvars, g, pvars, resolver, ensure, ui>>

DetectReturned ==
    /\ detect.pc = "done"
    /\ detect' = IdleDetect
    /\ UNCHANGED <<kvars, g, pvars, resolver, ensure, ui>>

NextDetect ==
    \/ DetectBusinessType
    \/ DetectReturned

SpecDetect == Init /\ [][NextDetect]_vars

----------------------------------------------------------------------------
(* The page on its own: clicks on Generate, generations that settle, the    *)
(* settings dialog                                                          *)

MaxGenerations == 3   \* generations started since the page was loaded

\* what generateWebsite resolves with: the page alone, the page with a
\* stylesheet and a script, two pages, or a failure
PageResponses ==
    { Response(TRUE, <<File("index.html", Document(SectionIds, <<"</main>", "</body>", "</html>">>),
                            "html")>>, <<"index.html">>, NoError),
      Response(TRUE, <<File("index.html", Document(SectionIds, <<"</main>", "</body>", "</html>">>),
                            "html"),
                       File("styles.css", CssText, "css"), File("script.js", JsText, "js")>>,
               <<"index.html">>, NoError),
      Response(TRUE, <<File("about.html", <<"<html>", "about", "</html>">>, "html"),
                       File("index.html", <<"<html>", "hero", "</html>">>, "html")>>,
               <<"about.html", "index.html">>, NoError),
      Failure("API key not found"),
      Failure("Failed to parse generated content") }

\* a click on the Generate button, with the prompt typed or not, a screenshot
\* uploaded or not, and the model chosen
ClickGenerate(promptGiven, image, provider) ==
    /\ ~GenerateDisabled(ui, promptGiven, image)
    /\ Len(ui.calls) < MaxGenerations
    /\ ui' = handleGenerateCalled(ui, promptGiven, image,
                                  getApiKey(apiKeys, localStorage, provider))
    /\ UNCHANGED <<kvars, g, pvars, resolver, ensure, detect>>

\* the generateWebsite call of generation k resolves
GenerateWebsiteReturned(k, response) ==
    /\ k \in 1..Len(ui.calls)
    /\ ui.calls[k] = "pending"
    /\ ui' = handleGenerateResumed(ui, k, response)
    /\ UNCHANGED <<kvars, g, pvars, resolver, ensure, detect>>

\* the try block of generation k ends with an exception
GenerateWebsiteThrew(k) ==
    /\ k \in 1..Len(ui.calls)
    /\ ui.calls[k] = "pending"
    /\ ui' = handleGenerateCaught(ui, k)
    /\ UNCHANGED <<kvars, g, pvars, resolver, ensure, detect>>

NextPage ==
    \/ \E promptGiven \in BOOLEAN, image \in BOOLEAN, provider \in Providers :
          ClickGenerate(promptGiven, image, provider)
    \/ \E k \in 1..MaxGenerations, response \in PageResponses : GenerateWebsiteReturned(k, response)
    \/ \E k \in 1..MaxGenerations : GenerateWebsiteThrew(k)
    \/ \E provider \in Providers, apiKey \in {NoKey, "K2"} : SubmitApiKey(provider, apiKey)

SpecPage == Init /\ [][NextPage]_vars

----------------------------------------------------------------------------
(* Properties *)

InFlight == g.pc \in {"reading", "fetch", "backoff", "images"}
Done == g.pc = "done"
Paths(files) == {files[n].path : n \in 1..Len(files)}
Is503(status) == status \in {"503", "503 not JSON"}
AllOverloaded == g.statuses # <<>> /\ \A i \in 1..Len(g.statuses) : Is503(g.statuses[i])

\* C1: when every response of the generative endpoint has status 503, exactly
\* three requests are sent, the second after a wait of at least 2 s, the third
\* after a wait of at least 4 s, then generateWebsite reports failure; a fourth
\* request is never sent.
C1_OverloadBackoff ==
    /\ Len(g.sends) <= maxAttempts
    /\ (Done /\ g.mode = "first" /\ AllOverloaded) =>
          /\ Len(g.sends) = 3
          /\ g.sends[2] >= 2
          /\ g.sends[3] >= 4
          /\ ~g.result.success

\* the three overload answers have come, each with a body that is not JSON
C1_Reached ==
    Done /\ g.mode = "first" /\ g.statuses = <<"503 not JSON", "503 not JSON", "503 not JSON">>

\* C2: when the endpoint answers with a failure status other than 503, the call
\* fails at once: one request was sent, none follows, and the failure is the
\* result of generateWebsite.
C2_FailFast ==
    (g.mode = "first" /\ g.statuses # <<>> /\ g.statuses[1] = "400") =>
        Len(g.sends) = 1 /\ Done /\ ~g.result.success

\* a second request is in flight after a 400
C2_Reached == g.pc = "fetch" /\ g.mode = "first" /\ g.statuses = <<"400">>

\* C3: whatever the model answered, a response with success = true that
\* generateWebsite returns, or that enhanceWithImages returned for the first
\* call, lists at least one file.
C3_SuccessHasFiles ==
    /\ (Done /\ g.result.success) => Len(g.result.files) > 0
    /\ g.firstResponse.success => Len(g.firstResponse.files) > 0

\* generateWebsite has returned success with no file
C3_Reached == Done /\ g.result.success /\ g.result.files = <<>>

\* C4: for every non-empty input that parseGeneratedContent parses with
\* success = true, the files hold an html file with non-empty content.
C4_SuccessHasHtml ==
    (pStage = "parsed" /\ pInput # <<>> /\ pResult.success) =>
        \E n \in 1..Len(pResult.files) :
            pResult.files[n].type = "html" /\ pResult.files[n].content # <<>>

\* a non-empty input was parsed with success and no html file
C4_Reached ==
    /\ pStage = "parsed" /\ pInput # <<>> /\ pResult.success
    /\ \A n \in 1..Len(pResult.files) : pResult.files[n].type # "html"

\* C5: parseGeneratedContent returns a response for every input; it is a
\* failure only when no strategy recovers a file (the tuple and page
\* extraction find none, the JSON route throws, the fallback finds no markup),
\* and then it lists no files and carries an error.
C5_ParseTotal ==
    pStage = "parsed" =>
        /\ pResult.success \in BOOLEAN
        /\ ~pResult.success =>
              /\ pResult.files = <<>>
              /\ pResult.error # NoError
              /\ parseWithRegex(pInput).files = <<>>
              /\ ParseTry(pInput).threw
              /\ createFallbackContent(pInput).files = <<>>
        /\ pResult.success => pResult.error = NoError

\* an input that holds text was parsed, and no strategy recovered a file
C5_Reached == pStage = "parsed" /\ pInput # <<>> /\ ~pResult.success /\ pResult.error # NoError

\* C6: for a well-formed document {files: [{path, content, type}], pages}
\* parseGeneratedContent returns the files of the document: the same number,
\* in the same order, with the same path, content and type.
C6_RoundTrip ==
    (pStage = "parsed" /\ pSource.kind = "json" /\ pSource.withType /\ pSource.withPages
        /\ pSource.wrap = "bare") =>
        pResult.success /\ pResult.files = pSource.files

\* a well-formed document was parsed into other files than it holds
C6_Reached ==
    /\ pStage = "parsed" /\ pSource.kind = "json" /\ pSource.withType /\ pSource.withPages
    /\ pSource.wrap = "bare" /\ ~pSource.pretty
    /\ pResult.success /\ pResult.files # pSource.files

\* what the parser made of the first answer
FirstParsed == g.firstParsed

C8_BoundedContinuation ==
    /\ g.contCalls <= maxRetries
    /\ (InFlight /\ g.mode = "continuation") =>
          ~validateSinglePageContent(g.currentResponse).isComplete
    /\ (Done /\ g.firstResponse.success /\ g.req.projectType = "single-page"
           /\ validateSinglePageContent(g.firstResponse).isComplete) =>
          g.contCalls = 0 /\ g.result = g.firstResponse

\* three continuations were merged and the page is still incomplete
C8_Reached ==
    /\ Done /\ g.contCalls = 3 /\ Len(g.merges) = 3
    /\ ~validateSinglePageContent(g.result).isComplete

\* the first response with the continuations merged into it one after another
RECURSIVE MergedSoFar(_, _)
MergedSoFar(response, contents) ==
    IF contents = <<>> THEN response
    ELSE MergedSoFar(mergeContent(response, Response(TRUE, <<File("index.html", Head(contents), "html")>>,
                                                     <<>>, NoError)),
                     Tail(contents))

\* C9: in single-page mode, once the first generation is parsed with success,
\* generateWebsite returns success = true without an error whatever the
\* continuation calls do; what it returns is the first response with the
\* continuations merged so far.
C9_ContinuationNeverFails ==
    (Done /\ g.req.projectType = "single-page" /\ g.firstResponse.success) =>
        /\ g.result.success
        /\ g.result.error = NoError
        /\ g.result = MergedSoFar(g.firstResponse, g.merges)

\* the first answer was parsed with success and generateWebsite reports failure
C9_Reached ==
    /\ Done /\ g.req.projectType = "single-page" /\ g.firstResponse.success
    /\ ~g.result.success /\ g.result.error = "TypeError"

\* C10: in multi-page mode no continuation call is made and generateWebsite
\* returns what the first call returned.
C10_MultiPageAsIs ==
    (g.pc # "idle" /\ g.req.projectType = "multi-page") =>
        /\ g.contCalls = 0
        /\ g.mode = "first"
        /\ (Done /\ g.firstResponse # Pending) => g.result = g.firstResponse

\* a multi-page call has returned a page that validation finds incomplete
C10_Reached ==
    /\ Done /\ g.req.projectType = "multi-page" /\ g.firstResponse.success
    /\ ~validateSinglePageContent(g.firstResponse).isComplete

\* the number of occurrences of a token in a text
RECURSIVE Count(_, _)
Count(s, t) ==
    IF s = <<>> THEN 0 ELSE (IF Head(s) = t THEN 1 ELSE 0) + Count(Tail(s), t)

Resolved == resolver.pc = "done" /\ resolver.response.success /\ resolver.sectionsMap # <<>>

\* C11: when the marker resolver has run, for each base section for which
\* images were fetched no marker of it remains in any html file, and for each
\* base section without images every html file holds its markers as before.
C11_MarkersResolvedOrVerbatim ==
    Resolved =>
        \A k \in 1..Len(resolver.sectionsMap) :
            \A i \in 1..Len(resolver.sectionsMap[k].variants), n \in 1..Len(resolver.out.files) :
                resolver.out.files[n].type = "html" =>
                    LET text == MarkerText(resolver.sectionsMap[k].variants[i])
                    IN  IF resolver.imageMap[k] # <<>>
                        THEN Count(resolver.out.files[n].content, text) = 0
                        ELSE Count(resolver.out.files[n].content, text)
                                 = Count(resolver.response.files[n].content, text)

\* images were fetched for hero, one [IMAGE:hero] of the page was replaced and
\* a second one is still in the page
C11_Reached ==
    /\ Resolved
    /\ resolver.sectionsMap[1].base = "hero" /\ resolver.imageMap[1] # <<>>
    /\ Count(resolver.response.files[1].content, MarkerText("hero")) = 2
    /\ Count(resolver.out.files[1].content, MarkerText("hero")) = 1
    /\ Count(resolver.out.files[1].content, "<img") >= 1

\* C12: when the parser returned success, enhanceWithImages returns success
\* with the files of the parser under their paths and in their order, whatever
\* the searches came to (rejected, a failure status, a body that is no JSON, no
\* results for every query); a section whose searches all came back empty does
\* not keep the markers of a section with images from being replaced.
C12_LookupFailuresKeepResponse ==
    (resolver.pc = "done" /\ resolver.response.success) =>
        /\ resolver.out.success
        /\ resolver.out.pages = resolver.response.pages
        /\ Len(resolver.out.files) = Len(resolver.response.files)
        /\ \A n \in 1..Len(resolver.response.files) :
              /\ resolver.out.files[n].path = resolver.response.files[n].path
              /\ resolver.out.files[n].type = resolver.response.files[n].type
              /\ \A k \in 1..Len(resolver.sectionsMap) :
                    \A i \in 1..Len(resolver.sectionsMap[k].variants) :
                        LET text == MarkerText(resolver.sectionsMap[k].variants[i])
                            before == Count(resolver.response.files[n].content, text)
                        IN  (resolver.imageMap[k] # <<>> /\ before > 0
                                /\ resolver.response.files[n].type = "html") =>
                                Count(resolver.out.files[n].content, text) = before - 1

\* every search of one section failed or came back empty, another section got
\* photos, and its marker was replaced
C12_Reached ==
    /\ Resolved
    /\ \E k \in 1..Len(resolver.sectionsMap) : resolver.imageMap[k] = <<>>
    /\ \E k \in 1..Len(resolver.sectionsMap) :
          /\ resolver.imageMap[k] # <<>>
          /\ Count(resolver.out.files[1].content,
                   MarkerText(resolver.sectionsMap[k].variants[1])) = 0
          /\ Count(resolver.response.files[1].content,
                   MarkerText(resolver.sectionsMap[k].variants[1])) = 1

\* the key the store gives for the provider of the request at hand
KeyOfRequest == getApiKey(apiKeys, localStorage, g.req.provider)

\* C13: when getApiKey gives no key for the provider of the selected model, no
\* request goes out: handleGenerate shows its toast and returns without
\* calling the service, and generateWebsite, called directly, is settled with
\* success = false, no files and the error of the missing key, no fetch having
\* been issued.
C13_NoKeyNoRequest ==
    KeyOfRequest = NoKey =>
        /\ g.sends = <<>> /\ g.statuses = <<>>
        /\ g.firstResponse = Pending /\ g.contCalls = 0 /\ g.tasks = <<>>
        /\ g.via = "page" => g.pc = "idle" /\ g.toast \in {"Input Required", "API Key Required"}
        /\ g.via = "service" =>
              /\ Done
              /\ ~g.result.success
              /\ g.result.files = <<>>
              /\ g.result.error = "API key not found"

\* generateWebsite was called for a provider without a key and has returned
C13_Reached ==
    /\ Done /\ g.via = "service" /\ KeyOfRequest = NoKey /\ g.apiKey = NoKey
    /\ g.result.error = "API key not found"

\* the form of a failure: success = false, no files, an error message
IsFailure(response) ==
    ~response.success /\ response.files = <<>> /\ response.error # NoError

\* C14: with every request, timer and file read coming to its end, a call of
\* generateWebsite that has started settles; it settles with a response and
\* once (after it, only handleGenerate's return follows); its promise never
\* rejects; a response that reports failure has the form of a failure; and a
\* call without a key, a call for openai or claude, a first generation whose
\* three attempts all ended in an upstream error, an empty generation or a
\* network error, and a TypeError in ensureCompleteGeneration each end in a
\* failure.
C14_SettlesOnce ==
    /\ (g.pc \notin {"idle", "done"}) ~> Done
    /\ [][Done => g'.pc = "idle"]_vars
    /\ [](g.pc \in {"idle", "reading", "fetch", "backoff", "images", "done"})
    /\ [](Done =>
            /\ g.result # Pending
            /\ g.result.success \in BOOLEAN
            /\ ~g.result.success => IsFailure(g.result)
            /\ g.apiKey = NoKey => IsFailure(g.result)
            /\ g.req.provider \in {"openai", "claude"} => IsFailure(g.result)
            /\ (g.mode = "first" /\ Len(g.statuses) = maxAttempts) => IsFailure(g.result)
            /\ (g.firstResponse.success /\ g.firstResponse.shape = "object"
                    /\ g.req.projectType = "single-page") => IsFailure(g.result))

\* the third attempt of the first generation has ended in an upstream error and
\* generateWebsite has returned the failure
C14_Reached ==
    /\ Done /\ g.mode = "first" /\ g.statuses = <<"503", "400", "no text">>
    /\ IsFailure(g.result)

\* C15: a call of generateWebsite whose request carries onProgress and that
\* returns success has invoked the callback exactly once, with the text the
\* endpoint generated and the completion flag true, in multi-page and in
\* single-page mode.
C15_ProgressOnce ==
    (Done /\ g.req.onProgress /\ g.result.success) =>
        /\ Len(g.progress) = 1
        /\ g.progress[1].isComplete

\* a single-page call with one continuation merged has returned: the callback
\* was invoked for the first text, for the text of the continuation, for the
\* merged page with the flag false, and once more at the end
C15_Reached ==
    /\ Done /\ g.req.onProgress /\ g.result.success
    /\ g.req.projectType = "single-page" /\ Len(g.merges) = 1
    /\ Len(g.progress) = 4
    /\ g.progress[1].isComplete /\ g.progress[2].isComplete /\ ~g.progress[3].isComplete
    /\ g.progress[3].content = PrimaryContent(g.result)

\* the requests of the call that were issued and have not settled: the request
\* to the generative endpoint, or per file of the response the image request
\* of the section in turn
Outstanding ==
    IF g.pc = "fetch" THEN 1
    ELSE IF g.pc = "images"
    THEN Cardinality({n \in 1..Len(g.tasks) : g.tasks[n].todo # <<>>})
    ELSE 0

\* C16: at every moment of a generation at most one network request of it is
\* in flight.
C16_OneRequestAtATime == Outstanding <= 1

\* the response has two html files, and the first image request of each of
\* them is in flight
C16_Reached ==
    /\ g.pc = "images" /\ Len(g.tasks) = 2 /\ Outstanding = 2
    /\ g.tasks[1].file.type = "html" /\ g.tasks[2].file.type = "html"

\* C17: after any submissions of the settings dialog, for every provider that
\* was set since the page was loaded getApiKey returns the key of the latest
\* setApiKey, and the overlay and the persisted entry both hold that key; the
\* overlay is consulted first: where it holds a key, that key is returned.
C17_LastWriteWins ==
    \A p \in Providers :
        /\ lastSet[p] # "unset" =>
              /\ getApiKey(apiKeys, localStorage, p) = lastSet[p]
              /\ apiKeys[p] = lastSet[p]
              /\ localStorage[p] = lastSet[p]
        /\ apiKeys[p] # NoKey => getApiKey(apiKeys, localStorage, p) = apiKeys[p]

\* the gemini key was set to K1, a call was started with it, and the key was
\* set to K2 while the call waits
C17_Reached ==
    /\ g.pc = "fetch" /\ g.req.provider = "gemini" /\ g.apiKey = "K1"
    /\ keyEdits = 2 /\ lastSet["gemini"] = "K2"
    /\ getApiKey(apiKeys, localStorage, "gemini") = "K2"

\* C18: every request to the generative endpoint carries the key that
\* getApiKey gives for the provider at the moment the request is issued.
C18_KeyReadPerRequest == g.pc = "fetch" => g.sentKey = g.keyAtSend

\* the key was changed while the first request was in flight, and the request
\* of the next attempt went out with the key of before
C18_Reached ==
    /\ g.pc = "fetch" /\ g.attempt = 2
    /\ g.sentKey = "AIza" /\ g.keyAtSend = "K1"

C20_PathsDistinct ==
    pStage = "parsed" =>
        \A i \in 1..Len(pResult.files) : \A j \in 1..Len(pResult.files) :
            i # j => pResult.files[i].path # pResult.files[j].path

\* the raw output had two entries with the same path and the parser returned a
\* successful response with two files
C20_Reached ==
    /\ pStage = "parsed"
    /\ Len(pSource.files) = 2
    /\ pSource.files[1].path = pSource.files[2].path
    /\ pResult.success
    /\ Len(pResult.files) = 2

\* the files each strategy recovers from a raw output, <<>> when it recovers none
TupleFiles(content) == SelectSeqLong(TupleMatches(content, 1))

SniffFiles(content) ==
    LET blocks == DoctypeBlocks(content, 1)
    IN  [n \in 1..Len(blocks) |-> File(PageName(n), blocks[n], "html")]

JsonFiles(content) ==
    LET jsonStr == extractJsonFromContent(content)
        route   == ParseJsonRoute(JSONparse(sanitizeJsonString(jsonStr)))
    IN  IF jsonStr = <<>> \/ route.threw THEN <<>> ELSE route.value.files

\* the files of the first strategy, in the order tuple extraction, raw HTML
\* sniffing, JSON extraction, delimiter format, fallback synthesis, that
\* recovers at least one file; <<>> when none does
CascadeFiles(content) ==
    IF TupleFiles(content) # <<>> THEN TupleFiles(content)
    ELSE IF SniffFiles(content) # <<>> THEN SniffFiles(content)
    ELSE IF JsonFiles(content) # <<>> THEN JsonFiles(content)
    ELSE IF parseFallbackFormat(content).files # <<>> THEN parseFallbackFormat(content).files
    ELSE createFallbackContent(content).files

\* C21: the parser returns exactly the files of the first strategy of the cascade
\* (tuple extraction, raw HTML sniffing with the names index.html, page2.html, ...,
\* JSON extraction, === filename === sections, fallback synthesis) that recovers
\* at least one file, and reports success exactly when one of them does.
C21_FirstStrategyWins ==
    pStage = "parsed" =>
        /\ pResult.files = CascadeFiles(pInput)
        /\ pResult.success = (CascadeFiles(pInput) # <<>>)

\* an output in the delimiter format that only the delimiter strategy and the
\* fallback can read has been parsed
C21_Reached ==
    /\ pStage = "parsed"
    /\ pSource.kind = "delimited"
    /\ TupleFiles(pInput) = <<>> /\ SniffFiles(pInput) = <<>> /\ JsonFiles(pInput) = <<>>
    /\ Len(parseFallbackFormat(pInput).files) = 2
    /\ pResult.success

\* the required sections no word of the page matches, in table order
MissingIn(htmlContent) ==
    SelectSeq(SectionIds, LAMBDA id : \A n \in 1..Len(htmlContent) : htmlContent[n] \notin SectionTokens(id))

\* the page the latest validation read
ValidatedPage == ensure.currentResponse.files[1].content

\* C22: whenever validateSinglePageContent has read the page of a response,
\* missingSections is the list of the required sections that no pattern finds in
\* the page, in table order, and isComplete is true exactly when that list is
\* empty and the page has both </body> and </html>.
C22_CompleteIffAllSections ==
    (ensure.pc \in {"await", "done"} /\ ensure.attempt < maxRetries
     /\ Len(ensure.currentResponse.files) > 0) =>
        /\ ensure.validation.missingSections = MissingIn(ValidatedPage)
        /\ ensure.validation.isComplete =
              (/\ MissingIn(ValidatedPage) = <<>>
               /\ \E n \in 1..Len(ValidatedPage) : ValidatedPage[n] = "</body>"
               /\ \E n \in 1..Len(ValidatedPage) : ValidatedPage[n] = "</html>")

\* a page with all nine sections and both closing tags was found complete, with
\* nothing missing, after a merge
C22_Reached ==
    /\ ensure.pc = "done" /\ ensure.merges > 0 /\ ensure.attempt < maxRetries
    /\ ensure.validation.isComplete
    /\ ensure.validation.missingSections = <<>>

\* the place of the first token of the page that is tag, 0 when there is none
FirstTag(page, tag) ==
    IF \E n \in 1..Len(page) : page[n] = tag
    THEN CHOOSE n \in 1..Len(page) : page[n] = tag /\ \A m \in 1..(n - 1) : page[m] # tag
    ELSE 0

\* where the claim puts the fragment: the place of the first </main>, else of the
\* first </body>, else of the first </html>, else one past the end
SplicePlace(page) ==
    IF FirstTag(page, "</main>") # 0 THEN FirstTag(page, "</main>")
    ELSE IF FirstTag(page, "</body>") # 0 THEN FirstTag(page, "</body>")
    ELSE IF FirstTag(page, "</html>") # 0 THEN FirstTag(page, "</html>")
    ELSE Len(page) + 1

Merged == ensure.merges > 0 /\ Len(ensure.merge.existing.files) > 0

\* C23: after mergeContent the page is the existing page up to the first </main>
\* (without one, the first </body>; without that, the first </html>; without
\* any, its end), then the cleaned continuation with nothing but white space
\* around it, then the rest of the existing page from that tag on, both parts
\* unchanged.
C23_SplicedBeforeCloser ==
    Merged =>
        LET old   == ensure.merge.existing.files[1].content
            new   == ensure.merge.merged.files[1].content
            place == SplicePlace(old)
            tail  == Len(old) - place + 1
        IN  /\ Len(new) >= Len(old)
            /\ SubSeq(new, 1, place - 1) = SubSeq(old, 1, place - 1)
            /\ SubSeq(new, Len(new) - tail + 1, Len(new)) = SubSeq(old, place, Len(old))
            /\ Trim(SubSeq(new, place, Len(new) - tail))
                  = cleanContinuation(ensure.merge.continuation.files[1].content)

\* a continuation was merged into a page that has </body> and </html> but no </main>
C23_Reached ==
    /\ Merged
    /\ FirstTag(ensure.merge.existing.files[1].content, "</main>") = 0
    /\ FirstTag(ensure.merge.existing.files[1].content, "</body>") # 0
    /\ FirstTag(ensure.merge.existing.files[1].content, "</html>") # 0
    /\ cleanContinuation(ensure.merge.continuation.files[1].content) # <<>>

ClosingTags == {"</main>", "</body>", "</html>"}

OneOfEach(page) == \A tag \in ClosingTags : Count(page, tag) = 1

\* C24: when the page of the first response has exactly one </main>, one </body>
\* and one </html>, the page has exactly one of each after every continuation
\* merge, whatever the continuation text was.
C24_OneCopyOfClosers ==
    (/\ ensure.pc # "idle"
     /\ Len(ensure.response.files) > 0
     /\ OneOfEach(ensure.response.files[1].content)) =>
        OneOfEach(ensure.currentResponse.files[1].content)

\* a continuation that ends with the closing tags, as the continuation prompt
\* asks, has been merged into a page with one copy of each
C24_Reached ==
    /\ Merged
    /\ OneOfEach(ensure.merge.existing.files[1].content)
    /\ \A tag \in ClosingTags :
          Count(cleanContinuation(ensure.merge.continuation.files[1].content), tag) = 1

\* the required sections a word of the page matches
DetectedIn(htmlContent) ==
    {id \in {SectionIds[n] : n \in 1..Len(SectionIds)} :
        \E n \in 1..Len(htmlContent) : htmlContent[n] \in SectionTokens(id)}

TablePlace(id) == CHOOSE n \in 1..Len(SectionIds) : SectionIds[n] = id

\* C25: while a continuation request is out, the section its prompt names as the
\* last completed one is a section validation detected in the current page, no
\* detected section comes after it in the table, and it is not in the list of
\* missing sections of the same prompt.
C25_LastSectionDetected ==
    ensure.pc = "await" =>
        /\ Len(ensure.currentResponse.files) > 0
        /\ ensure.prompt.lastSection \in DetectedIn(ensure.currentResponse.files[1].content)
        /\ \A id \in DetectedIn(ensure.currentResponse.files[1].content) :
              TablePlace(id) <= TablePlace(ensure.prompt.lastSection)
        /\ \A n \in 1..Len(ensure.prompt.missingSections) :
              ensure.prompt.missingSections[n] # ensure.prompt.lastSection

\* a continuation request is out for a page in which no section is detected; its
\* prompt names header as the last section and as the first missing one
C25_Reached ==
    /\ ensure.pc = "await"
    /\ Len(ensure.currentResponse.files) > 0
    /\ DetectedIn(ensure.currentResponse.files[1].content) = {}
    /\ ensure.prompt.lastSection = "header"
    /\ ensure.prompt.missingSections[1] = "header"

\* the markers of the html files of the parsed response, file after file, in
\* their order
RECURSIVE MarkersOf(_)
MarkersOf(files) ==
    IF files = <<>> THEN <<>>
    ELSE (IF Head(files).type = "html" THEN imageMatches(Head(files).content) ELSE <<>>)
         \o MarkersOf(Tail(files))

FirstAt(names, name) == CHOOSE n \in 1..Len(names) : names[n] = name /\ \A m \in 1..(n - 1) : names[m] # name

\* the 0-based position of a variant among the variants of its base section, in
\* the order of first appearance
VariantPosition(names, variant) ==
    Cardinality({ other \in {names[n] : n \in 1..Len(names)} :
                    /\ baseSection(other) = baseSection(variant)
                    /\ FirstAt(names, other) < FirstAt(names, variant) })

Occurs(text, part) == \E a \in 1..(Len(text) - Len(part) + 1) : SubSeq(text, a, a + Len(part) - 1) = part

\* C26: when the resolver has run and n >= 1 images were fetched for a base
\* section, every html file that held the marker of a variant of that section
\* holds, in its place, the image element of the image at index i mod n, i being
\* the 0-based position of the variant in order of first appearance, and of no
\* other image: no variant is left without an image when n is less than the
\* number of variants.
C26_VariantsCycleImages ==
    Resolved =>
        LET names == MarkersOf(resolver.response.files)
        IN  \A k \in 1..Len(resolver.sectionsMap) :
                resolver.imageMap[k] # <<>> =>
                    \A variant \in {v \in {names[n] : n \in 1..Len(names)} :
                                        baseSection(v) = resolver.sectionsMap[k].base} :
                        \A n \in 1..Len(resolver.response.files) :
                            (/\ resolver.response.files[n].type = "html"
                             /\ Count(resolver.response.files[n].content, MarkerText(variant)) > 0) =>
                                \A j \in 1..Len(resolver.imageMap[k]) :
                                    Occurs(resolver.out.files[n].content,
                                           getImageMarkup(resolver.imageMap[k][j], variant))
                                    = (j = (VariantPosition(names, variant) % Len(resolver.imageMap[k])) + 1)

\* two images were fetched for gallery, which has five variants
C26_Reached ==
    /\ Resolved
    /\ \E k \in 1..Len(resolver.sectionsMap) :
          /\ resolver.sectionsMap[k].base = "gallery"
          /\ Len(resolver.sectionsMap[k].variants) = 5
          /\ Len(resolver.imageMap[k]) = 2
    /\ Occurs(resolver.out.files[2].content, getImageMarkup("photo1", "gallery5"))

\* the keyword score of each type for the prompt analysed last
Scores ==
    [type \in {BusinessTypes[n] : n \in 1..Len(BusinessTypes)} |->
        ScoreOf(type, includes(detect.content), extractKeywords(detect.content))]

TypePlace(type) == CHOOSE n \in 1..Len(BusinessTypes) : BusinessTypes[n] = type

\* C27: detectBusinessType returns 'business' when every type scores 0;
\* otherwise a type whose score no type exceeds and before which, in the table,
\* no type has the same score. For "coffee shop landing page" it returns
\* 'restaurant'.
C27_HighestScoreFirstWins ==
    detect.pc = "done" =>
        LET score == Scores
        IN  /\ IF \A type \in DOMAIN score : score[type] = 0
               THEN detect.businessType = "business"
               ELSE /\ detect.businessType \in DOMAIN score
                    /\ \A type \in DOMAIN score :
                          /\ score[type] <= score[detect.businessType]
                          /\ score[type] = score[detect.businessType] =>
                                TypePlace(detect.businessType) <= TypePlace(type)
            /\ detect.content = <<"coffee", "shop", "landing", "page">> =>
                  detect.businessType = "restaurant"

\* a prompt for which three types have the highest score has been analysed
C27_Reached ==
    /\ detect.pc = "done"
    /\ detect.content = <<"training", "shop">>
    /\ Scores["fitness"] = 2 /\ Scores["technology"] = 2 /\ Scores["education"] = 2
    /\ detect.businessType = "fitness"

(***************************************************************************)
(* mergeContent: what a merge leaves alone                                 *)
(***************************************************************************)

PathSet(response) == {response.files[n].path : n \in 1..Len(response.files)}

\* C28: a merge changes only the content of the primary file: the primary file
\* keeps its path and type, every other file of the existing response is still
\* there with its path, content and type, success and pages are unchanged; and
\* after any number of merges the response has the file paths of the first
\* response.
C28_MergeChangesPrimaryContentOnly ==
    Merged =>
        LET existing == ensure.merge.existing
            merged   == ensure.merge.merged
        IN  /\ merged.success = existing.success
            /\ merged.pages = existing.pages
            /\ Len(merged.files) = Len(existing.files)
            /\ merged.files[1].path = existing.files[1].path
            /\ merged.files[1].type = existing.files[1].type
            /\ \A n \in 2..Len(existing.files) :
                   n <= Len(merged.files) /\ merged.files[n] = existing.files[n]
            /\ PathSet(ensure.currentResponse) = PathSet(ensure.response)

\* a response with a stylesheet and a script has been merged with a
\* continuation, and the merged response holds the page alone
C28_Reached ==
    /\ Merged
    /\ PathSet(ensure.merge.existing) = {"index.html", "styles.css", "script.js"}
    /\ PathSet(ensure.merge.merged) = {"index.html"}
    /\ ensure.merge.merged.success = ensure.merge.existing.success
    /\ ensure.merge.merged.pages = ensure.merge.existing.pages

(***************************************************************************)
(* The page: isGenerating and the generations in flight                    *)
(***************************************************************************)

Unsettled == {k \in 1..Len(ui.calls) : ui.calls[k] = "pending"}

\* C29: isGenerating is true exactly while a generateWebsite call that
\* handleGenerate started is unsettled, whatever the outcome of the calls
\* before (success, failure, exception); at most one call is unsettled at a
\* time; and the files shown are never those of a generation older than one
\* that succeeded.
C29_GeneratingWhileUnsettled ==
    /\ ui.isGenerating <=> Unsettled # {}
    /\ Cardinality(Unsettled) <= 1
    /\ \A k \in 1..Len(ui.calls) : ui.calls[k] = "success" => k <= ui.shown

\* after a generation that succeeded and one that ended with an exception a
\* third one is in flight
C29_Reached ==
    /\ ui.calls = <<"success", "thrown", "pending">>
    /\ ui.isGenerating
    /\ ui.shown = 1

(***************************************************************************)
(* The pages of a response and the files they name                         *)
(***************************************************************************)

\* the page after handleGenerate has taken the response of its first generation
PageShowing(response) ==
    handleGenerateResumed([InitialPage EXCEPT !.isGenerating = TRUE, !.calls = <<"pending">>],
                          1, response)

\* C30: in every success response that generateWebsite returns, whichever parse
\* strategy made it and whether or not continuations were merged into it,
\* every entry of pages is the path of one of its files; and the currentPage
\* and the selectedFile that handleGenerate sets from it are paths of files.
C30_PagesNameFiles ==
    (Done /\ g.result.success) =>
        /\ \A n \in 1..Len(g.result.pages) : g.result.pages[n] \in Paths(g.result.files)
        /\ PageShowing(g.result).currentPage \in Paths(PageShowing(g.result).files)
        /\ PageShowing(g.result).selectedFile \in Paths(PageShowing(g.result).files)

\* a success response after a merge whose pages name about.html, while its
\* files hold index.html alone
C30_Reached ==
    /\ Done /\ g.result.success
    /\ Len(g.merges) > 0
    /\ g.result.pages = <<"index.html", "about.html">>
    /\ Paths(g.result.files) = {"index.html"}
    /\ PageShowing(g.result).selectedFile = "index.html"

====
